---- MODULE Spec2Model ----
(***************************************************************************)
(* A model of the NexisOS package manager core (nexispm):                  *)
(*   - PackageResolver::resolve_dependencies        (src/resolver.rs)      *)
(*   - GenerationManager                            (generations/manager)  *)
(*   - PackageIngestor                              (store/ingest.rs)      *)
(*   - Ext4Store                                    (store/mod.rs)         *)
(* Each component has its own group of variables and its own               *)
(* specification; the other groups stay unchanged under it.                *)
(***************************************************************************)
EXTENDS Integers, Sequences, FiniteSets, TLC

VARIABLES
    \* ---- PackageResolver::resolve_dependencies ----
    packages,        \* the input Vec<ResolvedPackageConfig>: records [name, dependencies]
    r_pc,            \* position inside resolve_dependencies
    package_map,     \* HashMap<String, ResolvedPackageConfig>: name -> dependencies
    in_degree,       \* HashMap<String, usize>
    queue,           \* VecDeque<String>
    build_order,     \* Vec<String>
    processed,       \* HashSet<String>
    r_result,        \* the Result returned: [kind, ordered, remaining]
    \* ---- GenerationManager: the generations directory ----
    gen_dirs,        \* ids n for which the directory generations/<n> exists
    manifest,        \* id -> the package hashes the generation was created from
    current,         \* target of the symlink generations/current (None: no link)
    temp_link,       \* target of the symlink generations/.current.tmp (None: no link)
    last_gen_id,     \* the id allocated last (persisted allocator state)
    g_pc,            \* position inside switch_generation: "idle" or "linked"
    g_switch,        \* the switch_generation call in flight or ended last:
                     \* [old, new, phase, existed (generations/<new> at the call)]
    created_ids,     \* the ids create_generation has returned, in call order
    \* ---- the package store and its metadata ----
    pkg_dir,         \* hash -> state of the package directory at its store path:
                     \* "absent", "partial" (created, not all files), "complete"
    meta_pkg,        \* hashes with recorded package metadata (store_package_metadata)
    refcount,        \* hash -> recorded reference count
    marked,          \* hashes marked for deletion in the metadata store
    trash,           \* entries of .trash: <<hash, timestamp>>
    now,             \* the clock, in seconds
    pinned,          \* pinned generation ids
    s_last,          \* the last Ext4Store or collector call and what it returned
                     \* (history)
    \* ---- concurrent callers of Ext4Store ----
    sp_pc,           \* caller -> its position in store_package
    sp_tree,         \* caller -> the staging tree of its store_package call
    package_locks,   \* hash -> the caller holding the mutex of the hash
    m_pc,            \* mark_for_deletion: "idle", or the hash whose path it found
    \* ---- PackageResolver::find_latest_semver_tag ----
    tags,            \* &[String]: the tag list handed to the call
    latest,          \* the Result returned: [kind, tag]
    \* ---- directory hashing: a source tree and the calls made on it ----
    dir_tree,        \* top-level name -> node [kind, content, target, children]
    dir_mtime,       \* the modification time carried by the entries of the tree
    h_calls,         \* the hashing calls made so far, in order:
                     \* [fn, files, digest, order, followed, written]
    \* ---- the file table of the metadata store, and per-file ingest ----
    file_index,      \* the files table: file hash -> the path recorded for it
    first_path,      \* file hash -> the path recorded for it first (history)
    store_paths,     \* the package directories that exist
    n_ingests,       \* the number of ingest_package calls made
    \* ---- concurrent empty_trash calls ----
    et_pc,           \* caller -> its position in empty_trash
    walker,          \* caller -> the entries its read_dir has still to yield
    deleted,         \* caller -> the names pushed to `deleted` so far
    et_start,        \* caller -> the entries of .trash when its call started (history)
    et_failed,       \* the entries whose removal failed with an I/O error (history)
    \* ---- the rollback command ----
    rollback,        \* the last rollback: [generations, old, previous, outcome, new]
                     \* (history)
    \* ---- NexisPackageManager::build_generation and ParallelBuilder ----
    bg_pc,           \* position inside build_generation, or inside build_packages
    bg_rest,         \* the resolved packages the loop has still to build
    built_packages,  \* Vec of the packages built so far (names)
    committed,       \* the packages committed to the store (names)
    bg_log,          \* the builds started so far: [name, dependencies, committed] (history)
    \* ---- MetadataStore (meta/mod.rs): the cache and the backend keys ----
    cache,           \* MetadataCache: [files, versions, search_index, total_files, dirty]
    backend,         \* the objects under meta/: [files, versions, search_index, total_files], None when absent
    persist_pc,      \* position inside persist, or the state of the process
    returned,        \* the tables after each mutation that has returned, oldest first (history)
    \* ---- per-file deduplication: reflink_copy and the loop of ingest_package ----
    dd_pc,           \* position of the ingest loop: idle, running, ok, err
    dd_files,        \* the file entries the loop has still to handle: [name, content, existing]
    dd_dest,         \* file name -> content of the destination file, <<>> while absent
    dd_log,          \* what was done for each file handled so far (history)
    \* ---- git tag cache (resolver.rs) ----
    tag_cache,       \* repo_url -> <<>> or <<GitTagCache>>
    remote_tags,     \* the tag list git ls-remote would print, per repo_url
    wall,            \* SystemTime::now(), in seconds
    resolution,      \* the last call of resolve_latest_git_tag
    \* ---- Ext4Store::list_packages (store/mod.rs) ----
    levels,          \* the bucket levels of the store layout
    listed,          \* the last call of list_packages
    \* ---- NexisConfig::get_packages_ordered (config.rs) ----
    cfg_packages,    \* self.packages: records [name, dependencies]
    ordered,         \* the Result of the last get_packages_ordered
    \* ---- StorageBackend: MemoryBackend and FilesystemBackend (store/backend.rs) ----
    mem_data,        \* MemoryBackend.data: key -> <<>> or <<Bytes>>
    fs_files,        \* the files below root_path: key -> <<>> or <<Bytes>>
    fs_dirs,         \* the directories below root_path
    b_last,          \* the last call, made on both backends
    \* ---- MetadataStore with its path index and statistics (meta/mod.rs) ----
    md_config,       \* MetadataConfig: enable_versioning, enable_search_index, compress_metadata
    md_cache,        \* MetadataCache: files, path_to_id, versions, search_index, stats, dirty
    md_backend,      \* the objects under meta/: key -> <<>> or <<bytes>>
    md_ops,          \* number of mutating calls made
    md_last,         \* the last call and what it returned
    \* ---- NexisConfig::load_from and its includes (config.rs 180-217) ----
    ld_files,        \* path -> [kind, includes]: the configuration files on disk
    ld_stack,        \* the load_from calls in progress, innermost last: [path, next, merged]
    ld_result        \* what the outermost load_from has returned: [kind, merged, failed]

rvars == <<packages, r_pc, package_map, in_degree, queue, build_order, processed, r_result>>

gvars == <<gen_dirs, manifest, current, temp_link, last_gen_id, g_pc, g_switch, created_ids>>

svars == <<pkg_dir, meta_pkg, refcount, marked, trash, now, pinned, s_last>>

cvars == <<sp_pc, sp_tree, package_locks, m_pc>>

tvars == <<tags, latest>>

hvars == <<dir_tree, dir_mtime, h_calls>>

fvars == <<file_index, first_path, store_paths, n_ingests>>

evars == <<et_pc, walker, deleted, et_start, et_failed>>

bvars == <<rollback>>

uvars == <<bg_pc, bg_rest, built_packages, committed, bg_log>>

mvars == <<cache, backend, persist_pc, returned>>

kvars == <<dd_pc, dd_files, dd_dest, dd_log>>

wvars == <<tag_cache, remote_tags, wall, resolution>>

lvars == <<levels, listed>>

nvars == <<cfg_packages, ordered>>

avars == <<mem_data, fs_files, fs_dirs, b_last>>

ivars == <<md_config, md_cache, md_backend, md_ops, md_last>>

dvars == <<ld_files, ld_stack, ld_result>>

vars == <<rvars, gvars, svars, cvars, tvars, hvars, fvars, evars, bvars, uvars, mvars, kvars, wvars, lvars, nvars, avars, ivars, dvars>>

\* What the actions of one component leave unchanged: the other components.
notResolver == <<gvars, svars, cvars, tvars, hvars, fvars, evars, bvars, uvars, mvars, kvars, wvars, lvars, nvars, avars, ivars, dvars>>

notGen == <<rvars, svars, cvars, tvars, hvars, fvars, evars, bvars, uvars, mvars, kvars, wvars, lvars, nvars, avars, ivars, dvars>>

notStore == <<rvars, gvars, tvars, hvars, fvars, evars, bvars, uvars, mvars, kvars, wvars, lvars, nvars, avars, ivars, dvars>>

notTags == <<rvars, gvars, svars, cvars, hvars, fvars, evars, bvars, uvars, mvars, kvars, wvars, lvars, nvars, avars, ivars, dvars>>

notHash == <<rvars, gvars, svars, cvars, tvars, fvars, evars, bvars, uvars, mvars, kvars, wvars, lvars, nvars, avars, ivars, dvars>>

notFiles == <<rvars, gvars, svars, cvars, tvars, hvars, evars, bvars, uvars, mvars, kvars, wvars, lvars, nvars, avars, ivars, dvars>>

notSweep == <<rvars, gvars, tvars, hvars, fvars, bvars, uvars, mvars, kvars, wvars, lvars, nvars, avars, ivars, dvars>>

notRollback == <<rvars, svars, cvars, tvars, hvars, fvars, evars, uvars, mvars, kvars, wvars, lvars, nvars, avars, ivars, dvars>>

notBuild == <<svars, cvars, tvars, hvars, fvars, evars, bvars, mvars, kvars, wvars, lvars, nvars, avars, ivars, dvars>>

notCli == <<rvars, tvars, hvars, fvars, evars, bvars, uvars, mvars, kvars, wvars, lvars, nvars, avars, ivars, dvars>>

notDedup == <<rvars, gvars, svars, cvars, tvars, hvars, fvars, evars, bvars, uvars, mvars, wvars, lvars, nvars, avars, ivars, dvars>>

notMeta == <<rvars, gvars, svars, cvars, tvars, hvars, fvars, evars, bvars, uvars, kvars, wvars, lvars, nvars, avars, ivars, dvars>>

notTagCache == <<rvars, gvars, svars, cvars, tvars, hvars, fvars, evars, bvars, uvars, mvars, kvars, lvars, nvars, avars, ivars, dvars>>

notList == <<rvars, gvars, svars, cvars, tvars, hvars, fvars, evars, bvars, uvars, mvars, kvars, wvars, nvars, avars, ivars, dvars>>

notConfig == <<rvars, gvars, svars, cvars, tvars, hvars, fvars, evars, bvars, uvars, mvars, kvars, wvars, lvars, avars, ivars, dvars>>

notBackend == <<rvars, gvars, svars, cvars, tvars, hvars, fvars, evars, bvars, uvars, mvars, kvars, wvars, lvars, nvars, ivars, dvars>>

notIndex == <<rvars, gvars, svars, cvars, tvars, hvars, fvars, evars, bvars, uvars, mvars, kvars, wvars, lvars, nvars, avars, dvars>>

notLoad == <<rvars, gvars, svars, cvars, tvars, hvars, fvars, evars, bvars, uvars, mvars, kvars, wvars, lvars, nvars, avars, ivars>>

\* ------------------------------------------------------------------------
\* Generic helpers
\* ------------------------------------------------------------------------

\* All sequences over S of length at most n.
SeqsUpTo(S, n) == UNION {[1..k -> S] : k \in 0..n}

\* All orders in which an unordered collection (a HashMap's keys) can be iterated.
Perms(S) == {s \in [1..Cardinality(S) -> S] : \A x \in S : \E i \in DOMAIN s : s[i] = x}

Range(s) == {s[i] : i \in DOMAIN s}

\* ------------------------------------------------------------------------
\* PackageResolver::resolve_dependencies (resolver.rs 315-394)
\* ------------------------------------------------------------------------

Names == {"a", "b", "c"}

\* Largest number of packages in the configuration handed to the resolver.
MaxPkgs == 3

\* The dependency lists (Vec<String>) a package may declare, duplicates included.
DepLists == {<<>>, <<"a">>, <<"b">>, <<"c">>, <<"b", "c">>, <<"c", "b">>, <<"b", "b">>}

PackageConfigs == [name : Names, dependencies : DepLists]

\* packages.into_iter().map(|pkg| (name, pkg)).collect(): a later entry with the
\* same name replaces an earlier one.
LastIndexOf(pkgs, n) == CHOOSE i \in DOMAIN pkgs :
                            /\ pkgs[i].name = n
                            /\ \A j \in DOMAIN pkgs : pkgs[j].name = n => j <= i

CollectPackageMap(pkgs) ==
    [n \in {pkgs[i].name : i \in DOMAIN pkgs} |-> pkgs[LastIndexOf(pkgs, n)].dependencies]

\* Number of occurrences of d in a dependency list.
RECURSIVE CountIn(_, _)
CountIn(deps, d) ==
    IF deps = <<>> THEN 0
    ELSE (IF Head(deps) = d THEN 1 ELSE 0) + CountIn(Tail(deps), d)

RECURSIVE SumOver(_, _, _)
SumOver(S, pm, d) ==
    IF S = {} THEN 0
    ELSE LET n == CHOOSE x \in S : TRUE
         IN  CountIn(pm[n], d) + SumOver(S \ {n}, pm, d)

\* in_degree after the loop of lines 331-341: one increment of in_degree[dep]
\* for every occurrence of dep in some package's dependencies.
CalculateInDegrees(pm) == [n \in DOMAIN pm |-> SumOver(DOMAIN pm, pm, n)]

\* A declared dependency that is not in the package set (line 333).
MissingDeps(pm) == {d \in UNION {Range(pm[n]) : n \in DOMAIN pm} : d \notin DOMAIN pm}

NoResult == [kind |-> "none", ordered |-> <<>>, remaining |-> {}]

\* The inner loop of lines 362-369 over the dependencies of the popped package:
\* decrement in_degree[dep] and push dep to the back of the queue at zero.
RECURSIVE ProcessDependencies(_, _, _)
ProcessDependencies(deps, deg, q) ==
    IF deps = <<>> THEN [deg |-> deg, q |-> q]
    ELSE LET dep == Head(deps)
             d1  == IF dep \in DOMAIN deg
                    THEN [deg EXCEPT ![dep] = deg[dep] - 1]
                    ELSE deg
             q1  == IF dep \in DOMAIN deg /\ d1[dep] = 0 THEN Append(q, dep) ELSE q
         IN  ProcessDependencies(Tail(deps), d1, q1)

\* Lines 384-390: the ordered packages, each with build_order = its index.
OrderedPackages(order, pm) ==
    [i \in DOMAIN order |->
        [name |-> order[i], dependencies |-> pm[order[i]], build_order |-> i - 1]]

\* Lines 316-347: build the map and the graph, compute the in-degrees, fail on a
\* missing dependency, seed the queue with the names of in-degree zero in the
\* HashMap's (unspecified) iteration order.
BuildGraph ==
    /\ r_pc = "start"
    /\ LET pm == CollectPackageMap(packages)
       IN  /\ package_map' = pm
           /\ IF MissingDeps(pm) # {}
              THEN /\ r_result' = [NoResult EXCEPT !.kind = "DependencyNotFound"]
                   /\ r_pc' = "done"
                   /\ UNCHANGED <<in_degree, queue>>
              ELSE /\ in_degree' = CalculateInDegrees(pm)
                   /\ \E q \in Perms({n \in DOMAIN pm : CalculateInDegrees(pm)[n] = 0}) :
                          queue' = q
                   /\ r_pc' = "kahn"
                   /\ UNCHANGED r_result
    /\ UNCHANGED <<packages, build_order, processed, notResolver>>

\* One iteration of the while loop of lines 352-371.
KahnStep ==
    /\ r_pc = "kahn"
    /\ queue # <<>>
    /\ LET package_name == Head(queue)
       IN  IF package_name \in processed
           THEN /\ queue' = Tail(queue)
                /\ UNCHANGED <<build_order, processed, in_degree>>
           ELSE LET r == ProcessDependencies(package_map[package_name], in_degree, Tail(queue))
                IN  /\ build_order' = Append(build_order, package_name)
                    /\ processed' = processed \cup {package_name}
                    /\ in_degree' = r.deg
                    /\ queue' = r.q
    /\ UNCHANGED <<packages, r_pc, package_map, r_result, notResolver>>

\* Variant of FinishResolve comparing against the length of the input list
\* instead of the size of package_map.
FinishResolveByInputLen ==
    /\ r_pc = "kahn"
    /\ queue = <<>>
    /\ IF Len(build_order) # Len(packages)
       THEN r_result' = [kind |-> "CircularDependency", ordered |-> <<>>,
                         remaining |-> {n \in DOMAIN package_map : n \notin processed}]
       ELSE r_result' = [kind |-> "ok", ordered |-> OrderedPackages(build_order, package_map),
                         remaining |-> {}]
    /\ r_pc' = "done"
    /\ UNCHANGED <<packages, package_map, in_degree, queue, build_order, processed, notResolver>>

\* Lines 373-393: the queue is empty; report a cycle or return the ordered list.
FinishResolve ==
    /\ r_pc = "kahn"
    /\ queue = <<>>
    /\ IF Len(build_order) # Cardinality(DOMAIN package_map)
       THEN r_result' = [kind |-> "CircularDependency", ordered |-> <<>>,
                         remaining |-> {n \in DOMAIN package_map : n \notin processed}]
       ELSE r_result' = [kind |-> "ok", ordered |-> OrderedPackages(build_order, package_map),
                         remaining |-> {}]
    /\ r_pc' = "done"
    /\ UNCHANGED <<packages, package_map, in_degree, queue, build_order, processed, notResolver>>

\* No find_latest_semver_tag call has been made.
TagsIdle ==
    /\ tags = <<>>
    /\ latest = [kind |-> "idle", tag |-> <<>>]

\* The file table of a new store: no file recorded, no package directory.
FilesInit ==
    /\ file_index = <<>>
    /\ first_path = <<>>
    /\ store_paths = {}
    /\ n_ingests = 0

\* build_generation has not been called; the store holds no package.
BuildIdle ==
    /\ bg_pc = "idle"
    /\ bg_rest = <<>>
    /\ built_packages = <<>>
    /\ committed = {}
    /\ bg_log = <<>>

\* MetadataCache::default() (meta/mod.rs 95-104).
EmptyCache ==
    [files |-> {}, versions |-> {}, search_index |-> {}, total_files |-> 0, dirty |-> FALSE]

\* A backend without any object under meta/.
EmptyBackend ==
    [files |-> <<>>, versions |-> <<>>, search_index |-> <<>>, total_files |-> <<>>]

\* A MetadataStore opened on an empty backend; nothing has been done with it.
MetaIdle ==
    /\ cache = EmptyCache
    /\ backend = EmptyBackend
    /\ persist_pc = "idle"
    /\ returned = <<>>

\* No ingest loop is running; no destination file exists.
DedupIdle ==
    /\ dd_pc = "idle"
    /\ dd_files = <<>>
    /\ dd_dest = <<>>
    /\ dd_log = <<>>

\* The repository URLs of the git sources.
RepoUrls == {"u1", "u2"}

\* resolve_latest_git_tag has not been called.
NoResolution == [kind |-> "none"]

\* A PackageResolver just made by new(): HashMap::new() as cache (resolver.rs 127-135).
TagCacheIdle ==
    /\ tag_cache = [u \in RepoUrls |-> <<>>]
    /\ remote_tags = [u \in RepoUrls |-> <<>>]
    /\ wall = 0
    /\ resolution = NoResolution

\* StoreLayout::new(store_path, 2): 2-level bucketing for ext4 (mod.rs 221).
Ext4BucketLevels == 2

\* list_packages has not been called.
NoListing == [op |-> "none"]

\* An Ext4Store just made by new(); nothing has been listed.
ListIdle ==
    /\ levels = Ext4BucketLevels
    /\ listed = NoListing

\* get_packages_ordered has not been called.
NoOrdering == [kind |-> "none", list |-> <<>>]

\* A NexisConfig::default(): no package.
ConfigIdle ==
    /\ cfg_packages = <<>>
    /\ ordered = NoOrdering

\* The keys the callers use.
BackendKeys == {<<"a">>, <<"a", "b">>, <<"d">>, <<"d", "/", "a">>, <<"d", "/", "b">>}

\* Two new backends: MemoryBackend::new() and FilesystemBackend::new(root_path)
\* on an empty directory.
BackendIdle ==
    /\ mem_data = [k \in BackendKeys |-> <<>>]
    /\ fs_files = [k \in BackendKeys |-> <<>>]
    /\ fs_dirs = {}
    /\ b_last = [op |-> "none"]

\* File ids (Uuid) and paths of the metadata store.
MetaPaths == {"p1", "p2"}

\* MetadataConfig::default() (meta/mod.rs 82-92).
DefaultMetadataConfig ==
    [enable_versioning |-> TRUE, enable_search_index |-> TRUE, compress_metadata |-> TRUE]

\* MetadataCache::default() with its path index and statistics (95-104).
NewMetadataCache ==
    [files        |-> [id \in {"f1", "f2"} |-> <<>>],
     path_to_id   |-> [p \in MetaPaths |-> <<>>],
     versions     |-> [id \in {"f1", "f2"} |-> <<>>],
     search_index |-> [id \in {"f1", "f2"} |-> <<>>],
     stats        |-> [total_files |-> 0, total_size |-> 0],
     dirty        |-> FALSE]

\* A backend with no object under meta/.
NoMetaObjects ==
    [files |-> <<>>, versions |-> <<>>, search_index |-> <<>>, stats |-> <<>>,
     config |-> <<>>]

\* A MetadataStore with the default configuration opened on an empty backend.
IndexIdle ==
    /\ md_config = DefaultMetadataConfig
    /\ md_cache = NewMetadataCache
    /\ md_backend = NoMetaObjects
    /\ md_ops = 0
    /\ md_last = [op |-> "none"]

\* The paths of configuration files.
ConfigPaths == {"c1", "c2", "c3"}

\* load_from has not been called.
NoLoad == [kind |-> "none", merged |-> <<>>, failed |-> <<>>]

\* No configuration file is on disk and nothing is being loaded.
LoadIdle ==
    /\ ld_files = [p \in ConfigPaths |-> [kind |-> "missing", includes |-> <<>>]]
    /\ ld_stack = <<>>
    /\ ld_result = NoLoad

\* No rollback has been run.
NoRollback == [outcome |-> "none"]

RollbackInit == rollback = NoRollback

\* No empty_trash call is running.
SweepIdle ==
    /\ et_pc = <<>>
    /\ walker = <<>>
    /\ deleted = <<>>
    /\ et_start = <<>>
    /\ et_failed = {}

\* No source tree is being hashed.
HashIdle ==
    /\ dir_tree = <<>>
    /\ dir_mtime = 0
    /\ h_calls = <<>>

ResolverInit ==
    /\ packages \in SeqsUpTo(PackageConfigs, MaxPkgs)
    /\ r_pc = "start"
    /\ package_map = <<>>
    /\ in_degree = <<>>
    /\ queue = <<>>
    /\ build_order = <<>>
    /\ processed = {}
    /\ r_result = NoResult

\* The resolver before any call: the state of the other specifications.
ResolverIdle ==
    /\ packages = <<>>
    /\ r_pc = "idle"
    /\ package_map = <<>>
    /\ in_degree = <<>>
    /\ queue = <<>>
    /\ build_order = <<>>
    /\ processed = {}
    /\ r_result = NoResult

ResolverNext == BuildGraph \/ KahnStep \/ FinishResolve

\* ------------------------------------------------------------------------
\* The package store: the directories under the store root (Ext4Store,
\* store/mod.rs) and the metadata store used by PackageIngestor
\* (store/ingest.rs)
\* ------------------------------------------------------------------------

\* Staging trees handed to an ingest, and the package hashes they hash to.
Trees == {"t1", "t2"}

Hashes == {"h1", "h2"}

\* Largest reference count the model lets a package reach.
MaxRef == 2

\* Largest value of the clock (chrono::Utc::now().timestamp(), in seconds).
MaxTime == 1

\* compute_package_hash over the sorted file entries of the scanned tree
\* (ingest.rs 65-68, 223-235): a function of the tree, distinct trees here
\* having distinct hashes.
PackageHash(t) == IF t = "t1" THEN "h1" ELSE "h2"

\* calculate_hash of a source directory (mod.rs 252, 382-384).
CalculateHash(t) == IF t = "t1" THEN "h1" ELSE "h2"

\* layout.package_path(hash, name): <root>/packages/<hash>-<name>, one
\* directory per package hash.
PackagePath(h) == <<"packages", h>>

\* layout.find_package_by_hash as get_package documents it (mod.rs 322-324):
\* the package is found iff its path exists, whatever the directory holds.
FindPackageByHash(h) == pkg_dir[h] # "absent"

\* has_package (mod.rs 354-357).
HasPackage(h) == FindPackageByHash(h)

\* get_package (mod.rs 321-352): a record made up on the spot, ref_count 1.
GetPackage(h) ==
    IF FindPackageByHash(h)
    THEN [found |-> TRUE, hash |-> h, path |-> PackagePath(h), ref_count |-> 1]
    ELSE [found |-> FALSE, hash |-> h, path |-> <<>>, ref_count |-> 0]

\* meta_store.get_refcount: the recorded count, 0 for a hash never recorded.
GetRefcount(h) == refcount[h]

\* StoreDatabase::increment_refcount: current.unwrap_or(0) + 1.
IncrementRefcount(rc, h) == [rc EXCEPT ![h] = rc[h] + 1]

NoCall == [op |-> "none"]

\* What a store_package call returns and did: the StoredPackage fields the
\* caller sees (hash, path, ref_count) and whether anything was written under
\* the store path.
StoredPackage(t, h, kind, rc, wrote) ==
    [op |-> "store_package", tree |-> t, kind |-> kind, hash |-> h,
     path |-> PackagePath(h), ref_count |-> rc, wrote |-> wrote]

\* PackageIngestor::ingest_package (ingest.rs 56-157).  Every `?` of the new
\* package branch is a way to stop: what was done before it stays on disk.
IngestPackage(t) ==
    LET h == PackageHash(t) IN
    /\ IF pkg_dir[h] # "absent"
       THEN \* lines 74-89: store_path.exists()
            \E kind \in {"existing", "meta_error"} :
               /\ kind = "existing" => refcount[h] < MaxRef
               /\ refcount' = IF kind = "existing" THEN IncrementRefcount(refcount, h)
                              ELSE refcount
               /\ UNCHANGED <<pkg_dir, meta_pkg>>
       ELSE \* lines 91-157
            \E kind \in {"mkdir_failed", "copy_failed", "metadata_failed",
                         "refcount_failed", "ok"} :
               /\ pkg_dir' = [pkg_dir EXCEPT ![h] =
                                CASE kind = "mkdir_failed" -> "absent"
                                  [] kind = "copy_failed"  -> "partial"
                                  [] OTHER                 -> "complete"]
               /\ meta_pkg' = IF kind \in {"refcount_failed", "ok"}
                              THEN meta_pkg \cup {h} ELSE meta_pkg
               /\ refcount' = IF kind = "ok" THEN [refcount EXCEPT ![h] = 1] ELSE refcount
    /\ UNCHANGED <<marked, trash, now, pinned, s_last, notStore, cvars>>

\* PackageIngestor::remove_package (ingest.rs 264-291).
RemovePackage(h) ==
    LET rc == GetRefcount(h) IN
    /\ IF rc <= 1
       THEN \* get_package_path(h) is Some: the package is marked, true returned
            /\ marked' = IF h \in meta_pkg THEN marked \cup {h} ELSE marked
            /\ UNCHANGED refcount
       ELSE /\ refcount' = [refcount EXCEPT ![h] = rc - 1]
            /\ UNCHANGED marked
    /\ UNCHANGED <<pkg_dir, meta_pkg, trash, now, pinned, s_last, notStore, cvars>>

\* A mark_for_deletion whose rename is lost: the directory stays where it is.
TrashRenameLost(dirs, tr, h, t) == [dirs |-> dirs, trash |-> tr]

\* The rename of mark_for_deletion (mod.rs 387-393): the package directory
\* becomes .trash/to-delete-<hash>-<timestamp>.
TrashRename(dirs, tr, h, t) ==
    [dirs |-> [dirs EXCEPT ![h] = "absent"], trash |-> tr \cup {<<h, t>>}]

\* Ext4Store::mark_for_deletion (mod.rs 386-397).  Nothing but the path is
\* looked at.  The rename fails when the trash path of the same second is a
\* non-empty directory, or for any other I/O error.
MarkForDeletion(h) ==
    /\ \E kind \in {"not_found", "rename_failed", "ok"} :
          /\ kind = "not_found" <=> ~FindPackageByHash(h)
          /\ LET r == IF kind = "ok" THEN TrashRename(pkg_dir, trash, h, now)
                      ELSE [dirs |-> pkg_dir, trash |-> trash]
             IN  /\ pkg_dir' = r.dirs
                 /\ trash' = r.trash
          /\ s_last' = [op |-> "mark_for_deletion", hash |-> h, kind |-> kind]
    /\ UNCHANGED <<meta_pkg, refcount, marked, now, pinned, notStore, cvars>>

\* Ext4Store::empty_trash (mod.rs 399-423): the entries are removed one by
\* one in read_dir order; the first remove_dir_all that fails ends the call
\* with the error, after the entries before it are gone.
EmptyTrash ==
    /\ \E removed \in SUBSET trash :
          /\ trash' = trash \ removed
          /\ s_last' = [op |-> "empty_trash",
                        kind |-> IF removed = trash THEN "ok" ELSE "remove_failed"]
    /\ UNCHANGED <<pkg_dir, meta_pkg, refcount, marked, now, pinned, notStore, cvars>>

\* Time passes.
Tick ==
    /\ now < MaxTime
    /\ now' = now + 1
    /\ UNCHANGED <<pkg_dir, meta_pkg, refcount, marked, trash, pinned, s_last,
                   notStore, cvars>>

StoreInit ==
    /\ pkg_dir = [h \in Hashes |-> "absent"]
    /\ meta_pkg = {}
    /\ refcount = [h \in Hashes |-> 0]
    /\ marked = {}
    /\ trash = {}
    /\ now = 0
    /\ pinned = {}
    /\ s_last = NoCall

\* ------------------------------------------------------------------------
\* GenerationManager (generations/manager.rs)
\* ------------------------------------------------------------------------

\* An absent symlink is the empty set, a symlink to generations/<n> is {n}.
None == {}

\* Largest generation id the model allocates or passes to switch_generation.
MaxGenId == 2

GenIds == 1..MaxGenId

Max(S) == CHOOSE x \in S : \A y \in S : y <= x

\* list_generations (lines 39-49): the directory entries whose name parses as
\* u64, sorted ascending; current and .current.tmp do not parse.
RECURSIVE SortedSeq(_)
SortedSeq(S) ==
    IF S = {} THEN <<>>
    ELSE LET m == Max(S) IN Append(SortedSeq(S \ {m}), m)

ListGenerations == SortedSeq(gen_dirs)

\* An allocator that derives the id from the directory listing: ids of removed
\* generations come back.
NextIdFromListing == IF gen_dirs = {} THEN 1 ELSE Max(gen_dirs) + 1

\* next_generation_id (called at line 14; its body is not part of the sources):
\* the next monotonic id, one above the last id ever allocated.
NextGenerationId == last_gen_id + 1

\* The manifests a new generation may be created from: sets of built packages.
BuiltPackageSets == SUBSET {h \in Hashes : pkg_dir[h] = "complete"}

\* create_generation (lines 13-25).  The id is allocated first; create_dir_all
\* or the write of config.toml may fail, the latter leaving the directory.
CreateGeneration ==
    /\ g_pc = "idle"
    /\ NextGenerationId <= MaxGenId
    /\ LET gen_id == NextGenerationId
       IN  /\ last_gen_id' = gen_id
           /\ \E outcome \in {"ok", "mkdir_failed", "write_failed"}, m \in BuiltPackageSets :
                 /\ gen_dirs' = IF outcome = "mkdir_failed" THEN gen_dirs
                                ELSE gen_dirs \cup {gen_id}
                 /\ manifest' = IF outcome = "ok" THEN [manifest EXCEPT ![gen_id] = m]
                                ELSE manifest
                 /\ created_ids' = IF outcome = "ok" THEN Append(created_ids, gen_id)
                                   ELSE created_ids
    /\ UNCHANGED <<current, temp_link, g_pc, g_switch, notGen>>

\* A mutant of line 33: the old link is removed before the new one is made.
SwitchBeginUnlinkFirst(gen_id) ==
    /\ g_pc = "idle"
    /\ temp_link = None
    /\ temp_link' = {gen_id}
    /\ current' = None
    /\ g_pc' = "linked"
    /\ g_switch' = [old |-> current, new |-> {gen_id}, phase |-> "linked",
                    existed |-> gen_id \in gen_dirs]
    /\ UNCHANGED <<gen_dirs, manifest, last_gen_id, created_ids, notGen>>

\* switch_generation, lines 28-33: symlink(generations/<gen_id>, .current.tmp).
\* symlink(2) does not look at its target; it fails with EEXIST when
\* .current.tmp is already there, and the call returns the error.
SwitchBegin(gen_id) ==
    /\ g_pc = "idle"
    /\ IF temp_link # None
       THEN /\ g_switch' = [old |-> current, new |-> {gen_id}, phase |-> "failed",
                            existed |-> gen_id \in gen_dirs]
            /\ UNCHANGED <<temp_link, g_pc, notGen>>
       ELSE /\ temp_link' = {gen_id}
            /\ g_pc' = "linked"
            /\ g_switch' = [old |-> current, new |-> {gen_id}, phase |-> "linked",
                            existed |-> gen_id \in gen_dirs]
    /\ UNCHANGED <<gen_dirs, manifest, current, last_gen_id, created_ids, notGen>>

\* switch_generation, line 34: rename(.current.tmp, current) succeeds.
SwitchRename ==
    /\ g_pc = "linked"
    /\ current' = temp_link
    /\ temp_link' = None
    /\ g_pc' = "idle"
    /\ g_switch' = [g_switch EXCEPT !.phase = "renamed"]
    /\ UNCHANGED <<gen_dirs, manifest, last_gen_id, created_ids, notGen>>

\* The process is killed between lines 33 and 34, or the rename fails and
\* line 34 returns the error: .current.tmp stays behind.
SwitchInterrupted ==
    /\ g_pc = "linked"
    /\ g_pc' = "idle"
    /\ g_switch' = [g_switch EXCEPT !.phase = "interrupted"]
    /\ UNCHANGED <<gen_dirs, manifest, current, temp_link, last_gen_id, created_ids, notGen>>

\* A generation directory is removed (prune, or an administrator).
RemoveGeneration(gen_id) ==
    /\ g_pc = "idle"
    /\ gen_id \in gen_dirs
    /\ gen_dirs' = gen_dirs \ {gen_id}
    /\ manifest' = [manifest EXCEPT ![gen_id] = {}]
    /\ UNCHANGED <<current, temp_link, last_gen_id, g_pc, g_switch, created_ids, notGen>>

NoSwitch == [old |-> None, new |-> None, phase |-> "none", existed |-> FALSE]

GenInit ==
    /\ gen_dirs = {}
    /\ manifest = [g \in GenIds |-> {}]
    /\ current = None
    /\ temp_link = None
    /\ last_gen_id = 0
    /\ g_pc = "idle"
    /\ g_switch = NoSwitch
    /\ created_ids = <<>>

GenNext ==
    \/ CreateGeneration
    \/ \E gen_id \in GenIds : SwitchBegin(gen_id)
    \/ SwitchRename
    \/ SwitchInterrupted
    \/ \E gen_id \in GenIds : RemoveGeneration(gen_id)

\* Ext4Store::store_package (mod.rs 240-319), one caller at a time.  The
\* package is "existing" as soon as get_package finds its path (lines 256-261
\* and 274-276; the reference count is not touched, see the TODO of line 259).
\* Otherwise backend.ingest_package fills the store path and may fail part way.
StorePackage(t) ==
    LET h == CalculateHash(t) IN
    /\ IF GetPackage(h).found
       THEN /\ s_last' = StoredPackage(t, h, "existing", GetPackage(h).ref_count, FALSE)
            /\ UNCHANGED pkg_dir
       ELSE \E kind \in {"mkdir_failed", "ingest_failed", "size_failed", "ok"} :
               /\ pkg_dir' = [pkg_dir EXCEPT ![h] =
                                CASE kind = "mkdir_failed"  -> "absent"
                                  [] kind = "ingest_failed" -> "partial"
                                  [] OTHER                  -> "complete"]
               /\ s_last' = StoredPackage(t, h, kind, 1, kind # "mkdir_failed")
    /\ UNCHANGED <<meta_pkg, refcount, marked, trash, now, pinned, notStore, cvars>>

\* pin(id) / unpin(id): index mutations that affect liveness.
Pin(gen_id) ==
    /\ gen_id \in gen_dirs
    /\ gen_id \notin pinned
    /\ pinned' = pinned \cup {gen_id}
    /\ UNCHANGED <<pkg_dir, meta_pkg, refcount, marked, trash, now, s_last,
                   notStore, cvars>>

Unpin(gen_id) ==
    /\ gen_id \in pinned
    /\ pinned' = pinned \ {gen_id}
    /\ UNCHANGED <<pkg_dir, meta_pkg, refcount, marked, trash, now, s_last,
                   notStore, cvars>>

\* The generations whose manifests keep packages alive: current and pinned.
LiveGenerations == current \cup pinned

\* The live set: the hashes in the manifest of a live generation.
LiveSet == UNION {manifest[g] : g \in LiveGenerations}

\* The number of live manifests that reference h.
LiveReferences(h) == Cardinality({g \in LiveGenerations : h \in manifest[g]})

\* GC candidates: the packages of the metadata store's package table that are
\* not live and whose recorded refcount equals the recount from the live
\* manifests, which is zero for them; the others are skipped.
GcCandidates == {h \in meta_pkg : h \notin LiveSet /\ GetRefcount(h) = LiveReferences(h)}

\* mark_for_deletion applied to every hash of S.
RECURSIVE MarkAll(_, _, _, _)
MarkAll(S, dirs, tr, t) ==
    IF S = {} THEN [dirs |-> dirs, trash |-> tr]
    ELSE LET h == CHOOSE x \in S : TRUE
             r == TrashRename(dirs, tr, h, t)
         IN  MarkAll(S \ {h}, r.dirs, r.trash, t)

\* collect_garbage(dry_run) (called through lib.rs 202-224): the mark pass
\* calls mark_for_deletion for every candidate, and an error of it ends the
\* collection with that error; then the sweep drains .trash, an unlink that
\* fails being counted without ending the sweep.  A dry run renames nothing.
CollectGarbage(dry_run) ==
    /\ g_pc = "idle"
    /\ IF dry_run
       THEN /\ s_last' = [op |-> "collect_garbage", dry_run |-> TRUE, kind |-> "ok"]
            /\ UNCHANGED <<pkg_dir, trash>>
       ELSE \E kind \in {"ok", "mark_failed"} :
               \E done \in SUBSET {h \in GcCandidates : FindPackageByHash(h)} :
                  LET r == MarkAll(done, pkg_dir, trash, now) IN
                  /\ kind = "ok" => done = {h \in GcCandidates : FindPackageByHash(h)}
                  /\ kind = "mark_failed" => done # GcCandidates
                  /\ pkg_dir' = r.dirs
                  /\ \E swept \in SUBSET r.trash :
                        /\ kind = "mark_failed" => swept = {}
                        /\ trash' = r.trash \ swept
                  /\ s_last' = [op |-> "collect_garbage", dry_run |-> FALSE, kind |-> kind]
    /\ UNCHANGED <<meta_pkg, refcount, marked, now, pinned, notStore, cvars>>

\* ------------------------------------------------------------------------
\* Ext4Store under concurrent callers: store_package step by step, against
\* mark_for_deletion and empty_trash (store/mod.rs)
\* ------------------------------------------------------------------------

\* The tasks that call store_package.
Callers == {"p1", "p2"}

NoTree == "none"

NoCaller == "free"

\* The package hash a caller's store_package works on.
HashOf(p) == CalculateHash(sp_tree[p])

\* A caller enters store_package(source_path of t) and computes the hash
\* (lines 240-253).
SpCall(p, t) ==
    /\ sp_pc[p] = "idle"
    /\ sp_pc' = [sp_pc EXCEPT ![p] = "check"]
    /\ sp_tree' = [sp_tree EXCEPT ![p] = t]
    /\ UNCHANGED <<package_locks, m_pc, svars, notStore>>

\* Lines 256-261: the first get_package, without the lock.
SpCheck(p) ==
    /\ sp_pc[p] = "check"
    /\ sp_pc' = [sp_pc EXCEPT ![p] = IF GetPackage(HashOf(p)).found THEN "ret_existing"
                                     ELSE "lock"]
    /\ UNCHANGED <<sp_tree, package_locks, m_pc, svars, notStore>>

\* Lines 264-271: the mutex of the hash is taken once it is free.
SpLock(p) ==
    /\ sp_pc[p] = "lock"
    /\ package_locks[HashOf(p)] = NoCaller
    /\ package_locks' = [package_locks EXCEPT ![HashOf(p)] = p]
    /\ sp_pc' = [sp_pc EXCEPT ![p] = "recheck"]
    /\ UNCHANGED <<sp_tree, m_pc, svars, notStore>>

\* Lines 273-276: the second get_package, under the lock.
SpRecheck(p) ==
    /\ sp_pc[p] = "recheck"
    /\ sp_pc' = [sp_pc EXCEPT ![p] = IF GetPackage(HashOf(p)).found THEN "ret_existing"
                                     ELSE "mkdir"]
    /\ UNCHANGED <<sp_tree, package_locks, m_pc, svars, notStore>>

\* Lines 278-287: create_dir_all of the parent of the store path.
SpMkdir(p) ==
    /\ sp_pc[p] = "mkdir"
    /\ \E ok \in BOOLEAN : sp_pc' = [sp_pc EXCEPT ![p] = IF ok THEN "ingest" ELSE "ret_err"]
    /\ UNCHANGED <<sp_tree, package_locks, m_pc, svars, notStore>>

\* Lines 289-293: backend.ingest_package creates the store path and starts to
\* fill it.
SpIngestBegin(p) ==
    /\ sp_pc[p] = "ingest"
    /\ pkg_dir' = [pkg_dir EXCEPT ![HashOf(p)] = "partial"]
    /\ sp_pc' = [sp_pc EXCEPT ![p] = "writing"]
    /\ UNCHANGED <<sp_tree, package_locks, m_pc, meta_pkg, refcount, marked, trash, now,
                   pinned, s_last, notStore>>

\* Lines 289-293: backend.ingest_package ends.  When the directory was moved
\* away under it, it fails, or it goes on at the store path with the files
\* it had left to write.
SpIngestEnd(p) ==
    /\ sp_pc[p] = "writing"
    /\ \E ok \in BOOLEAN :
          /\ sp_pc' = [sp_pc EXCEPT ![p] = IF ok THEN "size" ELSE "ret_err"]
          /\ pkg_dir' = [pkg_dir EXCEPT ![HashOf(p)] =
                           IF ~ok THEN @
                           ELSE IF @ = "absent" THEN "partial" ELSE "complete"]
    /\ UNCHANGED <<sp_tree, package_locks, m_pc, meta_pkg, refcount, marked, trash, now,
                   pinned, s_last, notStore>>

\* Line 296: calculate_dir_size(store_path) fails when the path is not there.
SpSize(p) ==
    /\ sp_pc[p] = "size"
    /\ sp_pc' = [sp_pc EXCEPT ![p] = IF pkg_dir[HashOf(p)] = "absent" THEN "ret_err"
                                     ELSE "ret_ok"]
    /\ UNCHANGED <<sp_tree, package_locks, m_pc, svars, notStore>>

\* The call returns Ok(existing) (lines 260, 275), Ok(stored_package) (line
\* 318) or the error; the lock guard is dropped.
SpReturn(p) ==
    /\ sp_pc[p] \in {"ret_existing", "ret_ok", "ret_err"}
    /\ sp_pc' = [sp_pc EXCEPT ![p] = "idle"]
    /\ sp_tree' = [sp_tree EXCEPT ![p] = NoTree]
    /\ package_locks' = [h \in Hashes |->
                           IF package_locks[h] = p THEN NoCaller ELSE package_locks[h]]
    /\ UNCHANGED <<m_pc, svars, notStore>>

\* mark_for_deletion(h), line 387: get_package_path finds the directory, or
\* the call ends with PackageNotFound.
MarkLookup(h) ==
    /\ m_pc = "idle"
    /\ m_pc' = IF FindPackageByHash(h) THEN h ELSE "idle"
    /\ UNCHANGED <<sp_pc, sp_tree, package_locks, svars, notStore>>

\* mark_for_deletion, lines 391-393: the rename into .trash, which fails when
\* the directory is gone by now, or for an I/O error.
MarkRename ==
    /\ m_pc \in Hashes
    /\ \E ok \in BOOLEAN :
          LET r == IF ok /\ pkg_dir[m_pc] # "absent"
                   THEN TrashRename(pkg_dir, trash, m_pc, now)
                   ELSE [dirs |-> pkg_dir, trash |-> trash]
          IN  /\ pkg_dir' = r.dirs
              /\ trash' = r.trash
    /\ m_pc' = "idle"
    /\ UNCHANGED <<sp_pc, sp_tree, package_locks, meta_pkg, refcount, marked, now, pinned,
                   s_last, notStore>>

ConcInit ==
    /\ sp_pc = [p \in Callers |-> "idle"]
    /\ sp_tree = [p \in Callers |-> NoTree]
    /\ package_locks = [h \in Hashes |-> NoCaller]
    /\ m_pc = "idle"

ConcNext ==
    \/ \E p \in Callers, t \in Trees : SpCall(p, t)
    \/ \E p \in Callers : SpCheck(p)
    \/ \E p \in Callers : SpLock(p)
    \/ \E p \in Callers : SpRecheck(p)
    \/ \E p \in Callers : SpMkdir(p)
    \/ \E p \in Callers : SpIngestBegin(p)
    \/ \E p \in Callers : SpIngestEnd(p)
    \/ \E p \in Callers : SpSize(p)
    \/ \E p \in Callers : SpReturn(p)
    \/ \E h \in Hashes : MarkLookup(h)
    \/ MarkRename
    \/ EmptyTrash

\* ------------------------------------------------------------------------
\* Specifications
\* ------------------------------------------------------------------------

InitResolver == ResolverInit /\ GenInit /\ StoreInit /\ ConcInit /\ TagsIdle /\ HashIdle /\ FilesInit /\ SweepIdle /\ RollbackInit /\ BuildIdle /\ MetaIdle /\ DedupIdle /\ TagCacheIdle /\ ListIdle /\ ConfigIdle /\ BackendIdle /\ IndexIdle /\ LoadIdle

SpecResolver == InitResolver /\ [][ResolverNext]_vars

InitGen == ResolverIdle /\ GenInit /\ StoreInit /\ ConcInit /\ TagsIdle /\ HashIdle /\ FilesInit /\ SweepIdle /\ RollbackInit /\ BuildIdle /\ MetaIdle /\ DedupIdle /\ TagCacheIdle /\ ListIdle /\ ConfigIdle /\ BackendIdle /\ IndexIdle /\ LoadIdle

SpecGen == InitGen /\ [][GenNext]_vars

\* switch_generation (manager.rs 27-37) run from line 28 to line 35 without
\* interruption.
SwitchGeneration(gen_id) ==
    /\ g_pc = "idle"
    /\ current' = IF temp_link # None THEN current ELSE {gen_id}
    /\ UNCHANGED <<gen_dirs, manifest, temp_link, last_gen_id, g_pc, g_switch, created_ids,
                   notGen>>

\* The generation ids that build_generation allocates in the specification of
\* the whole package manager.
BuildIds == {1}

\* build_generation (lib.rs 147-178) once the packages are resolved and built:
\* the call of create_generation of lines 169-172.
BuildGeneration ==
    /\ NextGenerationId \in BuildIds
    /\ CreateGeneration

\* The package manager, one call at a time: PackageIngestor over the metadata
\* store, generations, pins and garbage collection.
Next ==
    \/ \E t \in Trees : IngestPackage(t)
    \/ BuildGeneration
    \/ \E gen_id \in GenIds : SwitchGeneration(gen_id)
    \/ \E gen_id \in GenIds : Pin(gen_id)
    \/ \E gen_id \in GenIds : Unpin(gen_id)
    \/ \E dry_run \in BOOLEAN : CollectGarbage(dry_run)

Init == ResolverIdle /\ GenInit /\ StoreInit /\ ConcInit /\ TagsIdle /\ HashIdle /\ FilesInit /\ SweepIdle /\ RollbackInit /\ BuildIdle /\ MetaIdle /\ DedupIdle /\ TagCacheIdle /\ ListIdle /\ ConfigIdle /\ BackendIdle /\ IndexIdle /\ LoadIdle

Spec == Init /\ [][Next]_vars

\* PackageIngestor and the trash of the store, one call at a time.
StoreNext ==
    \/ \E t \in Trees : IngestPackage(t)
    \/ \E h \in Hashes : RemovePackage(h)
    \/ \E h \in Hashes : MarkForDeletion(h)
    \/ EmptyTrash
    \/ Tick

InitStore == ResolverIdle /\ GenInit /\ StoreInit /\ ConcInit /\ TagsIdle /\ HashIdle /\ FilesInit /\ SweepIdle /\ RollbackInit /\ BuildIdle /\ MetaIdle /\ DedupIdle /\ TagCacheIdle /\ ListIdle /\ ConfigIdle /\ BackendIdle /\ IndexIdle /\ LoadIdle

SpecStore == InitStore /\ [][StoreNext]_vars

\* Ext4Store alone, one call at a time.
Ext4Next ==
    \/ \E t \in Trees : StorePackage(t)
    \/ \E h \in Hashes : MarkForDeletion(h)
    \/ EmptyTrash
    \/ Tick

InitExt4 == ResolverIdle /\ GenInit /\ StoreInit /\ ConcInit /\ TagsIdle /\ HashIdle /\ FilesInit /\ SweepIdle /\ RollbackInit /\ BuildIdle /\ MetaIdle /\ DedupIdle /\ TagCacheIdle /\ ListIdle /\ ConfigIdle /\ BackendIdle /\ IndexIdle /\ LoadIdle

SpecExt4 == InitExt4 /\ [][Ext4Next]_vars

\* Ext4Store with two concurrent callers of store_package and a collector.
InitConc == ResolverIdle /\ GenInit /\ StoreInit /\ ConcInit /\ TagsIdle /\ HashIdle /\ FilesInit /\ SweepIdle /\ RollbackInit /\ BuildIdle /\ MetaIdle /\ DedupIdle /\ TagCacheIdle /\ ListIdle /\ ConfigIdle /\ BackendIdle /\ IndexIdle /\ LoadIdle

SpecConc == InitConc /\ [][ConcNext]_vars

\* Ext4Store with two concurrent callers of store_package and nothing else.
LockNext ==
    \/ \E p \in Callers, t \in Trees : SpCall(p, t)
    \/ \E p \in Callers : SpCheck(p)
    \/ \E p \in Callers : SpLock(p)
    \/ \E p \in Callers : SpRecheck(p)
    \/ \E p \in Callers : SpMkdir(p)
    \/ \E p \in Callers : SpIngestBegin(p)
    \/ \E p \in Callers : SpIngestEnd(p)
    \/ \E p \in Callers : SpSize(p)
    \/ \E p \in Callers : SpReturn(p)

InitLock == ResolverIdle /\ GenInit /\ StoreInit /\ ConcInit /\ TagsIdle /\ HashIdle /\ FilesInit /\ SweepIdle /\ RollbackInit /\ BuildIdle /\ MetaIdle /\ DedupIdle /\ TagCacheIdle /\ ListIdle /\ ConfigIdle /\ BackendIdle /\ IndexIdle /\ LoadIdle

SpecLock == InitLock /\ [][LockNext]_vars

\* ------------------------------------------------------------------------
\* C1 -- topological order of the resolver output: whenever resolution succeeds,
\* every package a of the output that lists b in its dependencies is placed
\* after b (b has the smaller index and the smaller build_order).
\* ------------------------------------------------------------------------
C1_TopologicalOrder ==
    (r_pc = "done" /\ r_result.kind = "ok") =>
        \A i, j \in DOMAIN r_result.ordered :
            r_result.ordered[j].name \in Range(r_result.ordered[i].dependencies)
                => /\ j < i
                   /\ r_result.ordered[j].build_order < r_result.ordered[i].build_order

\* A resolution that succeeded on packages with at least one dependency edge.
C1_Witness ==
    /\ r_pc = "done"
    /\ r_result.kind = "ok"
    /\ \E i \in DOMAIN r_result.ordered : r_result.ordered[i].dependencies # <<>>

\* ------------------------------------------------------------------------
\* C2 -- ingest idempotence: when store_package of a tree follows a
\* store_package of the same tree that succeeded, with no other call in
\* between, the second call that succeeds returns the same hash and the same
\* store path, a reference count one above the one returned before, and it
\* writes nothing under the store path.
\* ------------------------------------------------------------------------
C2_IngestIdempotent ==
    [][\A t \in Trees :
          (/\ s_last.op = "store_package"
           /\ s_last.tree = t
           /\ s_last.kind \in {"ok", "existing"}
           /\ StorePackage(t)
           /\ s_last'.kind \in {"ok", "existing"})
          => /\ s_last'.hash = s_last.hash
             /\ s_last'.path = s_last.path
             /\ s_last'.ref_count = s_last.ref_count + 1
             /\ ~s_last'.wrote
             /\ pkg_dir' = pkg_dir]_vars

\* ------------------------------------------------------------------------
\* C3 -- integrity rule: a package is observable as stored (has_package and
\* get_package find it, or an ingest has counted a reference to it through
\* its "already exists" branch) only if an ingest recorded its metadata; a
\* directory left by a failed ingest is not taken for a package.
\* ------------------------------------------------------------------------
C3_IntegrityRule ==
    \A h \in Hashes :
        (HasPackage(h) \/ GetPackage(h).found \/ GetRefcount(h) > 0) => h \in meta_pkg

\* ------------------------------------------------------------------------
\* C4 -- activation atomicity: from the first step of a switch_generation(new)
\* started with current -> old, through its end (renamed, interrupted by a
\* crash, or failed), up to the next call, generations/current targets old or
\* new, and it is never absent when it was present at the start.
\* ------------------------------------------------------------------------
C4_ActivationAtomic ==
    g_switch.phase # "none" =>
        /\ current \in {g_switch.old, g_switch.new}
        /\ (g_switch.old # None => current # None)
        /\ (g_switch.phase \in {"linked", "interrupted", "failed"} => current = g_switch.old)

\* A switch from an existing current link to another generation is in flight.
C4_Witness ==
    /\ g_pc = "linked"
    /\ g_switch.old # None
    /\ g_switch.new # g_switch.old

\* ------------------------------------------------------------------------
\* C5 -- the current pointer never dangles: a switch_generation(id) whose
\* generations/<id> does not exist at the call fails and leaves current as it
\* was, so that no call ends with current -> a generation that did not exist.
\* ------------------------------------------------------------------------
C5_SwitchToMissingFails ==
    (g_switch.phase \in {"renamed", "interrupted", "failed"} /\ ~g_switch.existed) =>
        /\ g_switch.phase # "renamed"
        /\ current = g_switch.old

C8_RefcountAccounting ==
    \A h \in meta_pkg : GetRefcount(h) = LiveReferences(h)

\* ------------------------------------------------------------------------
\* C9 -- nothing is trashed or marked while referenced: a step that moves the
\* directory of a package away from its store path, or that marks the package
\* for deletion in the metadata store, is taken only when the recorded
\* refcount of the package is 0.
\* ------------------------------------------------------------------------
C9_NoTrashWhileReferenced ==
    [][\A h \in Hashes :
          (\/ pkg_dir[h] # "absent" /\ pkg_dir'[h] = "absent"
           \/ h \in marked' \ marked)
          => GetRefcount(h) = 0]_vars

\* ------------------------------------------------------------------------
\* C10 -- GC is safe concurrently with ingest: a store_package that returns
\* Ok (a new package, or an existing one) finds the package at its store path
\* at the return, and no step moves away the directory that an ingest in
\* flight is writing.
\* ------------------------------------------------------------------------
C10_GcSafeWithIngest ==
    [][/\ \A p \in Callers :
             (sp_pc[p] \in {"ret_ok", "ret_existing"} /\ sp_pc'[p] = "idle")
             => pkg_dir[HashOf(p)] # "absent"
       /\ \A h \in Hashes :
             (pkg_dir[h] # "absent" /\ pkg_dir'[h] = "absent")
             => \A p \in Callers : ~(sp_pc[p] = "writing" /\ HashOf(p) = h)]_vars

\* ------------------------------------------------------------------------
\* C11 -- per-package-hash exclusion: with concurrent store_package calls and
\* no other call, backend.ingest_package starts for a hash only when no other
\* caller is inside it for that hash and no ingest of the hash has started
\* before (the store path is absent), and a call that returns the existing
\* package returns a package whose ingest has completed.
\* ------------------------------------------------------------------------
C11_PerHashExclusion ==
    [][/\ \A p \in Callers :
             (sp_pc[p] = "ingest" /\ sp_pc'[p] = "writing")
             => /\ pkg_dir[HashOf(p)] = "absent"
                /\ \A q \in Callers \ {p} :
                      ~(sp_pc[q] = "writing" /\ HashOf(q) = HashOf(p))
       /\ \A p \in Callers :
             (sp_pc[p] \in {"check", "recheck"} /\ sp_pc'[p] = "ret_existing")
             => pkg_dir[HashOf(p)] = "complete"]_vars

\* The exclusion half of C11 alone: at most one caller at a time, and at
\* most one in total, runs backend.ingest_package for a hash.
C11_IngestOnce ==
    [][\A p \in Callers :
          (sp_pc[p] = "ingest" /\ sp_pc'[p] = "writing")
          => /\ pkg_dir[HashOf(p)] = "absent"
             /\ \A q \in Callers \ {p} :
                   ~(sp_pc[q] = "writing" /\ HashOf(q) = HashOf(p))]_vars

\* Two callers work on the same hash: one is inside backend.ingest_package,
\* the other waits for the lock of the hash.
C11_Witness ==
    \E p, q \in Callers :
        /\ p # q
        /\ HashOf(p) = HashOf(q)
        /\ sp_pc[p] = "writing"
        /\ sp_pc[q] = "lock"

\* ------------------------------------------------------------------------
\* Cycle detection of resolve_dependencies
\* ------------------------------------------------------------------------

\* The packages reachable from n over one or more declared dependencies.
RECURSIVE DepClosure(_, _)
DepClosure(pm, S) ==
    LET S1 == S \cup UNION {Range(pm[x]) \cap DOMAIN pm : x \in S \cap DOMAIN pm}
    IN  IF S1 = S THEN S ELSE DepClosure(pm, S1)

DependsTransitively(pm, n) == DepClosure(pm, Range(pm[n]) \cap DOMAIN pm)

\* The packages lying on a dependency cycle (a self-dependency included).
OnCycle(pm) == {n \in DOMAIN pm : n \in DependsTransitively(pm, n)}

\* C12 -- When every declared dependency is present, resolve_dependencies
\* returns CircularDependency exactly when the dependencies contain a cycle
\* (a self-dependency included), and the error then names every package
\* that lies on a cycle; acyclic input never yields CircularDependency.
C12_CycleDetection ==
    (r_pc = "done" /\ MissingDeps(package_map) = {})
    => /\ (r_result.kind = "CircularDependency") <=> (OnCycle(package_map) # {})
       /\ OnCycle(package_map) \subseteq r_result.remaining

\* A two-package cycle and a self-dependency have both been reported.
C12_Witness ==
    /\ r_pc = "done"
    /\ r_result.kind = "CircularDependency"
    /\ \E n \in DOMAIN package_map : n \in Range(package_map[n])
    /\ \E n, m \in OnCycle(package_map) :
          n # m /\ m \in Range(package_map[n]) /\ n \in Range(package_map[m])
    /\ OnCycle(package_map) \subseteq r_result.remaining

\* ------------------------------------------------------------------------
\* SemanticVersion (resolver.rs 66-111) and
\* PackageResolver::find_latest_semver_tag (resolver.rs 277-312)
\* Strings are sequences of one-character strings.
\* ------------------------------------------------------------------------

\* The byte of a character (strings compare byte-wise).
ByteOf(c) ==
    CASE c = "+" -> 43 [] c = "-" -> 45 [] c = "." -> 46 [] c = "/" -> 47
      [] c = "0" -> 48 [] c = "1" -> 49 [] c = "2" -> 50 [] c = "3" -> 51
      [] c = "4" -> 52 [] c = "5" -> 53 [] c = "6" -> 54 [] c = "7" -> 55
      [] c = "8" -> 56 [] c = "9" -> 57
      [] c = "a" -> 97 [] c = "b" -> 98 [] c = "c" -> 99 [] c = "d" -> 100
      [] c = "e" -> 101 [] c = "f" -> 102 [] c = "l" -> 108 [] c = "r" -> 114 [] c = "s" -> 115
      [] c = "t" -> 116 [] c = "v" -> 118 [] c = "x" -> 120

Digits == {"0", "1", "2", "3", "4", "5", "6", "7", "8", "9"}

\* Ordering::cmp of two strings: -1, 0 or 1.
RECURSIVE CmpStr(_, _)
CmpStr(a, b) ==
    IF a = <<>> THEN (IF b = <<>> THEN 0 ELSE -1)
    ELSE IF b = <<>> THEN 1
    ELSE IF ByteOf(Head(a)) < ByteOf(Head(b)) THEN -1
    ELSE IF ByteOf(Head(a)) > ByteOf(Head(b)) THEN 1
    ELSE CmpStr(Tail(a), Tail(b))

\* str::find(c): the first position of c, 0 when there is none.
FindChar(str, c) ==
    IF \E i \in DOMAIN str : str[i] = c
    THEN CHOOSE i \in DOMAIN str : str[i] = c /\ \A j \in 1..(i - 1) : str[j] # c
    ELSE 0

\* str::split(c).collect(): the parts between the occurrences of c.
RECURSIVE SplitOn(_, _)
SplitOn(str, c) ==
    LET i == FindChar(str, c)
    IN  IF i = 0 THEN <<str>>
        ELSE <<SubSeq(str, 1, i - 1)>> \o SplitOn(SubSeq(str, i + 1, Len(str)), c)

RECURSIVE DecimalValue(_)
DecimalValue(ds) ==
    IF ds = <<>> THEN 0
    ELSE 10 * DecimalValue(SubSeq(ds, 1, Len(ds) - 1)) + (ByteOf(ds[Len(ds)]) - 48)

\* str::parse::<u32>(): an optional '+', then one or more digits. The numerals
\* of TagSet are far below 2^32, so the overflow error is not modelled.
ParseU32(str) ==
    LET ds == IF str # <<>> /\ Head(str) = "+" THEN Tail(str) ELSE str
        ok == /\ ds # <<>>
              /\ \A i \in DOMAIN ds : ds[i] \in Digits
    IN  [ok |-> ok, value |-> IF ok THEN DecimalValue(ds) ELSE 0]

NoPrerelease == [some |-> FALSE, val |-> <<>>]

\* SemanticVersion::parse (lines 77-105).
SemanticVersionParse(tag) ==
    LET version      == IF tag # <<>> /\ Head(tag) = "v" THEN Tail(tag) ELSE tag
        dash_pos     == FindChar(version, "-")
        version_part == IF dash_pos > 0 THEN SubSeq(version, 1, dash_pos - 1) ELSE version
        prerelease   == IF dash_pos > 0
                        THEN [some |-> TRUE, val |-> SubSeq(version, dash_pos + 1, Len(version))]
                        ELSE NoPrerelease
        parts        == SplitOn(version_part, ".")
        major        == ParseU32(parts[1])
        minor        == ParseU32(parts[2])
        patch        == ParseU32(IF Len(parts) >= 3 THEN parts[3] ELSE <<"0">>)
    IN  IF Len(parts) < 2 \/ ~major.ok \/ ~minor.ok \/ ~patch.ok
        THEN [ok |-> FALSE, major |-> 0, minor |-> 0, patch |-> 0, prerelease |-> NoPrerelease]
        ELSE [ok |-> TRUE, major |-> major.value, minor |-> minor.value,
              patch |-> patch.value, prerelease |-> prerelease]

\* SemanticVersion::is_stable (lines 108-110).
IsStable(semver) == ~semver.prerelease.some

\* The derived Ord of SemanticVersion (line 67): major, minor, patch, then
\* prerelease with None below every Some.
CmpSemanticVersion(a, b) ==
    IF a.major # b.major THEN (IF a.major < b.major THEN -1 ELSE 1)
    ELSE IF a.minor # b.minor THEN (IF a.minor < b.minor THEN -1 ELSE 1)
    ELSE IF a.patch # b.patch THEN (IF a.patch < b.patch THEN -1 ELSE 1)
    ELSE IF ~a.prerelease.some THEN (IF b.prerelease.some THEN -1 ELSE 0)
    ELSE IF ~b.prerelease.some THEN 1
    ELSE CmpStr(a.prerelease.val, b.prerelease.val)

\* The loops of lines 280-296: the (semver, tag) pairs of the tags that parse,
\* in the order of the list; only the stable ones when stable_only.
RECURSIVE CollectValidVersions(_, _)
CollectValidVersions(ts, stable_only) ==
    IF ts = <<>> THEN <<>>
    ELSE LET semver == SemanticVersionParse(Head(ts))
             rest   == CollectValidVersions(Tail(ts), stable_only)
         IN  IF semver.ok /\ (~stable_only \/ IsStable(semver))
             THEN <<[semver |-> semver, tag |-> Head(ts)]>> \o rest
             ELSE rest

\* Vec::sort_by(|(a, _), (b, _)| b.cmp(a)): a stable sort, latest first.
RECURSIVE InsertLatestFirst(_, _)
InsertLatestFirst(sorted, e) ==
    IF sorted = <<>> THEN <<e>>
    ELSE IF CmpSemanticVersion(e.semver, Head(sorted).semver) > 0
         THEN <<e>> \o sorted
         ELSE <<Head(sorted)>> \o InsertLatestFirst(Tail(sorted), e)

RECURSIVE SortLatestFirst(_)
SortLatestFirst(vs) ==
    IF vs = <<>> THEN <<>>
    ELSE InsertLatestFirst(SortLatestFirst(SubSeq(vs, 1, Len(vs) - 1)), vs[Len(vs)])

\* Lines 277-312.
FindLatestSemverTagOf(ts) ==
    LET stable         == CollectValidVersions(ts, TRUE)
        valid_versions == IF stable = <<>> THEN CollectValidVersions(ts, FALSE) ELSE stable
    IN  IF valid_versions = <<>>
        THEN [kind |-> "NoValidTags", tag |-> <<>>]
        ELSE [kind |-> "ok", tag |-> SortLatestFirst(valid_versions)[1].tag]

\* The tags a remote may carry.
TagSet == {<<"v", "1", ".", "0", ".", "0">>,
            <<"v", "1", ".", "0", ".", "1", "-", "b", "e", "t", "a">>,
            <<"v", "1", ".", "1", ".", "0">>,
            <<"v", "0", ".", "9">>,
            <<"1", ".", "1">>,
            <<"v", "2", ".", "0", ".", "0", "-", "r", "c">>,
            <<"l", "a", "t", "e", "s", "t">>,
            <<"1">>,
            <<"1", ".", "1", ".", "0", ".", "2">>}

\* Largest number of tags in the list.
MaxTags == 4

FindLatestSemverTag ==
    /\ latest.kind = "idle"
    /\ latest' = FindLatestSemverTagOf(tags)
    /\ UNCHANGED <<tags, notTags>>

TagsInit ==
    /\ tags \in SeqsUpTo(TagSet, MaxTags)
    /\ latest = [kind |-> "idle", tag |-> <<>>]

TagsNext == FindLatestSemverTag

InitTags == ResolverIdle /\ GenInit /\ StoreInit /\ ConcInit /\ TagsInit /\ HashIdle /\ FilesInit /\ SweepIdle /\ RollbackInit /\ BuildIdle /\ MetaIdle /\ DedupIdle /\ TagCacheIdle /\ ListIdle /\ ConfigIdle /\ BackendIdle /\ IndexIdle /\ LoadIdle

SpecTags == InitTags /\ [][TagsNext]_vars

\* A tag of the form [v]major.minor[.patch][-prerelease]: two or three
\* numerals separated by dots, before the first '-'.
VersionCore(tag) ==
    LET version == IF tag # <<>> /\ Head(tag) = "v" THEN Tail(tag) ELSE tag
        dash    == FindChar(version, "-")
    IN  SplitOn(IF dash > 0 THEN SubSeq(version, 1, dash - 1) ELSE version, ".")

IsSemverTag(tag) ==
    /\ Len(VersionCore(tag)) \in {2, 3}
    /\ \A k \in DOMAIN VersionCore(tag) :
          /\ VersionCore(tag)[k] # <<>>
          /\ \A i \in DOMAIN VersionCore(tag)[k] : VersionCore(tag)[k][i] \in Digits

HasPrerelease(tag) == FindChar(tag, "-") > 0

\* (major, minor, patch) of a tag of that form, a missing patch being 0.
VersionTriple(tag) ==
    LET core == VersionCore(tag)
    IN  <<DecimalValue(core[1]), DecimalValue(core[2]),
          IF Len(core) >= 3 THEN DecimalValue(core[3]) ELSE 0>>

TripleLeq(x, y) ==
    \/ x[1] < y[1]
    \/ x[1] = y[1] /\ x[2] < y[2]
    \/ x[1] = y[1] /\ x[2] = y[2] /\ x[3] <= y[3]

\* The result is the greatest tag of the pool, or NoValidTags for an empty one.
LatestOfPool(pool) ==
    IF pool = {} THEN latest.kind = "NoValidTags"
    ELSE /\ latest.kind = "ok"
         /\ \E i \in pool :
               /\ tags[i] = latest.tag
               /\ \A j \in pool : TripleLeq(VersionTriple(tags[j]), VersionTriple(tags[i]))

\* C13 -- Among the tags of the form [v]major.minor[.patch][-prerelease],
\* find_latest_semver_tag returns one with the greatest (major, minor, patch)
\* among those without prerelease, or among all of them when none is stable;
\* tags of any other form are ignored, and the call fails with NoValidTags
\* when no tag has that form.
C13_LatestSelection ==
    latest.kind # "idle"
    => LET semver == {i \in DOMAIN tags : IsSemverTag(tags[i])}
           stable == {i \in semver : ~HasPrerelease(tags[i])}
       IN  LatestOfPool(IF stable # {} THEN stable ELSE semver)

\* The same selection over the tags SemanticVersion::parse accepts.
C13_LatestAmongAccepted ==
    latest.kind # "idle"
    => LET accepted == {i \in DOMAIN tags : SemanticVersionParse(tags[i]).ok}
           stable   == {i \in accepted : IsStable(SemanticVersionParse(tags[i]))}
       IN  LatestOfPool(IF stable # {} THEN stable ELSE accepted)

\* The tag list v1.0.0, v1.0.1-beta, v1.1.0, v0.9 resolved to v1.1.0.
C13_Witness ==
    /\ tags = <<<<"v", "1", ".", "0", ".", "0">>,
                <<"v", "1", ".", "0", ".", "1", "-", "b", "e", "t", "a">>,
                <<"v", "1", ".", "1", ".", "0">>,
                <<"v", "0", ".", "9">>>>
    /\ latest = [kind |-> "ok", tag |-> <<"v", "1", ".", "1", ".", "0">>]

\* ------------------------------------------------------------------------
\* Directory hashing: util::hash_directory (util.rs 91-137),
\* calculate_directory_hash / collect_entries_recursive (store/mod.rs 583-636)
\* and PackageIngestor::scan_source_directory (store/ingest.rs 160-202)
\* ------------------------------------------------------------------------

\* File names, as strings of characters.
NameA == <<"a">>

NameATxt == <<"a", ".", "t", "x", "t">>

NameB == <<"b">>

NameF == <<"f">>

\* Names an entry of the hashed root may have, and names inside a subdirectory.
TopNames == {NameA, NameATxt, NameB}

ChildNames == {NameB, NameF}

AllNames == TopNames \cup ChildNames

Contents == {<<"x">>, <<"y">>}

\* Targets of symlinks: a file and a directory outside the tree.
TargetFile == <<"/", "x">>

TargetDir == <<"/", "d">>

ExternalContent == <<"s">>

AbsentLeaf == [kind |-> "absent", content |-> <<>>]

FileLeaf(c) == [kind |-> "file", content |-> c]

Leaves == {AbsentLeaf} \cup {FileLeaf(c) : c \in Contents}

NoChildren == [n \in ChildNames |-> AbsentLeaf]

Node(kind, content, target, children) ==
    [kind |-> kind, content |-> content, target |-> target, children |-> children]

TopNodes ==
    {Node("absent", <<>>, <<>>, NoChildren)}
    \cup {Node("file", c, <<>>, NoChildren) : c \in Contents}
    \cup {Node("symlink", <<>>, t, NoChildren) : t \in {TargetFile, TargetDir}}
    \cup {Node("dir", <<>>, <<>>, ch) :
             ch \in {c \in [ChildNames -> Leaves] : c[NameB] # FileLeaf(<<"y">>)}}

\* The source trees: a, a.txt and b below the root, a.txt being a file if present.
DirTrees == {t \in [TopNames -> TopNodes] : t[NameATxt].kind \in {"absent", "file"}}

\* What the filesystem holds at the target of a symlink.
External(target) ==
    IF target = TargetFile
    THEN Node("file", ExternalContent, <<>>, NoChildren)
    ELSE Node("dir", <<>>, <<>>,
              [n \in ChildNames |-> IF n = NameF THEN FileLeaf(ExternalContent) ELSE AbsentLeaf])

\* What Path::is_dir, Path::is_file, File::open and fs::copy see: they follow
\* a symlink to its target.
Followed(node) == IF node.kind = "symlink" THEN External(node.target) ELSE node

Present(dir) == {n \in DOMAIN dir : dir[n].kind # "absent"}

\* The orders in which a filesystem may enumerate names.
FsOrders == Perms(AllNames)

\* fs::read_dir / an unsorted WalkDir: the names of a directory in the
\* filesystem's order.
ReadDir(S, fs_order) ==
    LET In(n) == n \in S
    IN  SelectSeq(fs_order, In)

\* WalkDir::sort_by_file_name: the names of a directory in byte-wise order.
SortByFileName(S) ==
    CHOOSE q \in Perms(S) : \A i, j \in DOMAIN q : i < j => CmpStr(q[i], q[j]) < 0

ListNames(S, fs_order, sorted) ==
    IF sorted THEN SortByFileName(S) ELSE ReadDir(S, fs_order)

\* Path::to_string_lossy of a relative path: the components joined by '/'.
RECURSIVE JoinPath(_)
JoinPath(path) ==
    IF path = <<>> THEN <<>>
    ELSE IF Len(path) = 1 THEN path[1]
    ELSE path[1] \o <<"/">> \o JoinPath(Tail(path))

\* Ord of Path: component by component, each component byte-wise.
RECURSIVE CmpPath(_, _)
CmpPath(a, b) ==
    IF a = <<>> THEN (IF b = <<>> THEN 0 ELSE -1)
    ELSE IF b = <<>> THEN 1
    ELSE IF CmpStr(Head(a), Head(b)) # 0 THEN CmpStr(Head(a), Head(b))
    ELSE CmpPath(Tail(a), Tail(b))

\* The bytes fed to a hasher by a sequence of update() calls.
RECURSIVE Flatten(_)
Flatten(updates) ==
    IF updates = <<>> THEN <<>> ELSE Head(updates) \o Flatten(Tail(updates))

\* A digest of a byte string, as an injective image of it.
DigestOf(name, bytes) == <<name, "(">> \o bytes \o <<")">>

\* WalkDir with follow_links(false): the entries below the root in pre-order;
\* a symlink is an entry and is not descended into.
WalkChildren(top, node, fs_order, sorted) ==
    LET names == ListNames(Present(node.children), fs_order, sorted)
    IN  [i \in DOMAIN names |->
            [path |-> <<top, names[i]>>, kind |-> "file",
             content |-> node.children[names[i]].content, target |-> <<>>,
             followed_kind |-> "file"]]

RECURSIVE WalkTop(_, _, _, _)
WalkTop(tree, names, fs_order, sorted) ==
    IF names = <<>> THEN <<>>
    ELSE LET n    == Head(names)
             node == tree[n]
         IN  <<[path |-> <<n>>, kind |-> node.kind,
                content |-> Followed(node).content, target |-> node.target,
                followed_kind |-> Followed(node).kind]>>
             \o (IF node.kind = "dir" THEN WalkChildren(n, node, fs_order, sorted) ELSE <<>>)
             \o WalkTop(tree, Tail(names), fs_order, sorted)

WalkDir(tree, fs_order, sorted) ==
    <<[path |-> <<>>, kind |-> "dir", content |-> <<>>, target |-> <<>>,
       followed_kind |-> "dir"]>>
    \o WalkTop(tree, ListNames(Present(tree), fs_order, sorted), fs_order, sorted)

\* The regular files of a tree: root-relative path and content.
TreeFiles(tree) ==
    {<<<<n>>, tree[n].content>> : n \in {m \in DOMAIN tree : tree[m].kind = "file"}}
    \cup UNION {{<<<<n, c>>, tree[n].children[c].content>> :
                    c \in {k \in ChildNames : tree[n].children[k].kind = "file"}} :
                n \in {m \in DOMAIN tree : tree[m].kind = "dir"}}

\* util.rs 107-134: what one entry feeds to the hasher. entry.metadata() does
\* not follow a symlink.
HashEntryUpdates(e) ==
    JoinPath(e.path) \o <<"\\0">>
    \o (CASE e.kind = "file"    -> DigestOf("blake3", e.content)
          [] e.kind = "dir"     -> <<"d", "i", "r">>
          [] e.kind = "symlink" -> <<"s", "y", "m", "l", "i", "n", "k", ":">> \o e.target)
    \o <<"\\0">>

\* util::hash_directory (util.rs 91-137).
HashDirectoryOf(tree) ==
    LET entries == WalkDir(tree, <<>>, TRUE)
    IN  [fn       |-> "hash_directory",
         files    |-> TreeFiles(tree),
         digest   |-> DigestOf("blake3", Flatten([i \in DOMAIN entries |-> HashEntryUpdates(entries[i])])),
         order    |-> [i \in DOMAIN entries |-> JoinPath(entries[i].path)],
         followed |-> {},
         written  |-> {}]

\* collect_entries_recursive (mod.rs 613-636) below one directory: rel_path is
\* the path relative to the directory being read, a directory (or a symlink
\* to one) is recursed into and contributes no entry of its own.
CollectChildren(top, node, fs_order) ==
    LET dir   == Followed(node)
        names == ReadDir(Present(dir.children), fs_order)
    IN  [i \in DOMAIN names |->
            [rel_path |-> names[i], abs_path |-> <<top, names[i]>>,
             is_file |-> TRUE, content |-> dir.children[names[i]].content,
             through_symlink |-> node.kind = "symlink"]]

RECURSIVE CollectEntriesRecursive(_, _, _)
CollectEntriesRecursive(tree, names, fs_order) ==
    IF names = <<>> THEN <<>>
    ELSE LET n    == Head(names)
             node == tree[n]
         IN  (IF Followed(node).kind = "dir"
              THEN CollectChildren(n, node, fs_order)
              ELSE <<[rel_path |-> n, abs_path |-> <<n>>,
                      is_file |-> Followed(node).kind = "file",
                      content |-> Followed(node).content,
                      through_symlink |-> node.kind = "symlink"]>>)
             \o CollectEntriesRecursive(tree, Tail(names), fs_order)

\* entries.sort_by(|a, b| a.0.cmp(&b.0)) (mod.rs 589): a stable sort by rel_path.
RECURSIVE InsertByRelPath(_, _)
InsertByRelPath(sorted, e) ==
    IF sorted = <<>> THEN <<e>>
    ELSE IF CmpStr(e.rel_path, Head(sorted).rel_path) < 0
         THEN <<e>> \o sorted
         ELSE <<Head(sorted)>> \o InsertByRelPath(Tail(sorted), e)

RECURSIVE SortByRelPath(_)
SortByRelPath(es) ==
    IF es = <<>> THEN <<>>
    ELSE InsertByRelPath(SortByRelPath(SubSeq(es, 1, Len(es) - 1)), es[Len(es)])

\* mod.rs 591-609: the relative path, then the bytes of the file.
CalcEntryUpdates(e) == e.rel_path \o (IF e.is_file THEN e.content ELSE <<>>)

\* calculate_directory_hash (mod.rs 583-611), behind Ext4Store::calculate_hash.
CalculateDirectoryHashOf(tree, fs_order) ==
    LET entries == SortByRelPath(
                       CollectEntriesRecursive(tree, ReadDir(Present(tree), fs_order), fs_order))
    IN  [fn       |-> "calculate_hash",
         files    |-> TreeFiles(tree),
         digest   |-> DigestOf("blake3", Flatten([i \in DOMAIN entries |-> CalcEntryUpdates(entries[i])])),
         order    |-> [i \in DOMAIN entries |-> JoinPath(entries[i].abs_path)],
         followed |-> {entries[i].abs_path : i \in {j \in DOMAIN entries : entries[j].through_symlink}},
         written  |-> {}]

\* scan_source_directory (ingest.rs 160-203): the entries of an unsorted WalkDir
\* that Path::is_dir does not report as a directory, each with the SHA-256 of
\* what File::open reads at its path, sorted by relative path.
RECURSIVE InsertByRelativePath(_, _)
InsertByRelativePath(sorted, e) ==
    IF sorted = <<>> THEN <<e>>
    ELSE IF CmpPath(e.relative_path, Head(sorted).relative_path) < 0
         THEN <<e>> \o sorted
         ELSE <<Head(sorted)>> \o InsertByRelativePath(Tail(sorted), e)

RECURSIVE FileEntries(_)
FileEntries(walk) ==
    IF walk = <<>> THEN <<>>
    ELSE LET e    == walk[Len(walk)]
             rest == FileEntries(SubSeq(walk, 1, Len(walk) - 1))
         IN  IF e.followed_kind = "dir" THEN rest
             ELSE InsertByRelativePath(rest,
                      [relative_path |-> e.path, hash |-> DigestOf("sha256", e.content),
                       content |-> e.content, is_symlink |-> e.kind = "symlink"])

ScanSourceDirectory(tree, fs_order) == FileEntries(WalkDir(tree, fs_order, FALSE))

\* compute_package_hash (ingest.rs 223-235).
ComputePackageHash(file_entries) ==
    DigestOf("sha256",
             Flatten([i \in DOMAIN file_entries |->
                         JoinPath(file_entries[i].relative_path) \o <<"|">>
                         \o file_entries[i].hash \o <<"\\n">>]))

\* What an entry of the package directory is after the copy loop.
Written(path, kind, content, target) ==
    [path |-> path, kind |-> kind, content |-> content, target |-> target]

\* ingest_package (ingest.rs 56-157) on a new package: scan, package hash, and
\* the loop of lines 99-130 that puts every file entry at its destination.
\* fs::copy writes a regular file holding what it read at the source path, and
\* deduplicate_file links a stored file of the same hash.
IngestTreeOf(tree, fs_order) ==
    LET file_entries == ScanSourceDirectory(tree, fs_order)
    IN  [fn       |-> "ingest_package",
         files    |-> TreeFiles(tree),
         digest   |-> ComputePackageHash(file_entries),
         order    |-> [i \in DOMAIN file_entries |-> JoinPath(file_entries[i].relative_path)],
         followed |-> {file_entries[i].relative_path :
                          i \in {j \in DOMAIN file_entries : file_entries[j].is_symlink}},
         written  |-> {Written(file_entries[i].relative_path, "file",
                               file_entries[i].content, <<>>) : i \in DOMAIN file_entries}]

\* The number of hashing calls made on one tree.
MaxHashCalls == 2

HashDirectory ==
    /\ dir_tree # <<>>
    /\ Len(h_calls) < MaxHashCalls
    /\ h_calls' = Append(h_calls, HashDirectoryOf(dir_tree))
    /\ UNCHANGED <<dir_tree, dir_mtime, notHash>>

CalculateDirectoryHash ==
    /\ dir_tree # <<>>
    /\ Len(h_calls) < MaxHashCalls
    /\ \E fs_order \in FsOrders :
          h_calls' = Append(h_calls, CalculateDirectoryHashOf(dir_tree, fs_order))
    /\ UNCHANGED <<dir_tree, dir_mtime, notHash>>

IngestSourceTree ==
    /\ dir_tree # <<>>
    /\ Len(h_calls) < MaxHashCalls
    /\ \E fs_order \in FsOrders :
          h_calls' = Append(h_calls, IngestTreeOf(dir_tree, fs_order))
    /\ UNCHANGED <<dir_tree, dir_mtime, notHash>>

\* The tree is copied or touched: same entries, other modification times.
TouchTree ==
    /\ dir_tree # <<>>
    /\ dir_mtime' = 1 - dir_mtime
    /\ UNCHANGED <<dir_tree, h_calls, notHash>>

HashInit ==
    /\ dir_tree \in DirTrees
    /\ dir_mtime = 0
    /\ h_calls = <<>>

HashNext == HashDirectory \/ CalculateDirectoryHash \/ IngestSourceTree \/ TouchTree

InitHash == ResolverIdle /\ GenInit /\ StoreInit /\ ConcInit /\ TagsIdle /\ HashInit /\ FilesInit /\ SweepIdle /\ RollbackInit /\ BuildIdle /\ MetaIdle /\ DedupIdle /\ TagCacheIdle /\ ListIdle /\ ConfigIdle /\ BackendIdle /\ IndexIdle /\ LoadIdle

SpecHash == InitHash /\ [][HashNext]_vars

CallsOf(fn) == {i \in DOMAIN h_calls : h_calls[i].fn = fn}

\* C14 -- Directory-hash determinism: any two calls of the same hashing
\* function on the same tree (or a copy with other modification times) return
\* the same hash, whatever the order in which the filesystem enumerates the
\* entries, for hash_directory and for Ext4Store::calculate_hash.
C14_HashDeterminism ==
    \A fn \in {"hash_directory", "calculate_hash"} :
        \A i, j \in CallsOf(fn) : h_calls[i].digest = h_calls[j].digest

\* The part of C14 about util::hash_directory.
C14_HashDirectoryDeterministic ==
    \A i, j \in CallsOf("hash_directory") : h_calls[i].digest = h_calls[j].digest

\* Two hash_directory calls, the second on touched entries, on a tree with
\* equally named files of different content in two subdirectories.
C14_Witness ==
    /\ dir_tree # <<>>
    /\ dir_tree[NameA].kind = "dir" /\ dir_tree[NameB].kind = "dir"
    /\ dir_tree[NameA].children[NameF].kind = "file"
    /\ dir_tree[NameB].children[NameF].kind = "file"
    /\ dir_tree[NameA].children[NameF] # dir_tree[NameB].children[NameF]
    /\ Len(h_calls) = 2
    /\ CallsOf("hash_directory") = {1, 2}
    /\ dir_mtime = 1
    /\ h_calls[1].digest = h_calls[2].digest

IsByteSorted(order) ==
    \A k, l \in DOMAIN order : k < l => CmpStr(order[k], order[l]) < 0

\* C15 -- Canonical traversal order: every directory hash processes the
\* entries in byte-wise order of their path relative to the hashed root.
C15_CanonicalOrder ==
    \A i \in DOMAIN h_calls : IsByteSorted(h_calls[i].order)

\* hash_directory on a tree holding the directory a with the file a/b next to
\* the file a.txt.
C15_Witness ==
    /\ dir_tree # <<>>
    /\ dir_tree[NameA].kind = "dir"
    /\ dir_tree[NameA].children[NameB].kind = "file"
    /\ dir_tree[NameATxt].kind = "file"
    /\ CallsOf("hash_directory") # {}

SymlinksOf(tree) == {n \in DOMAIN tree : tree[n].kind = "symlink"}

\* C16 -- Symlinks are never dereferenced: no hashing or ingest call reads,
\* traverses or copies what a symlink of the source tree points to, and an
\* ingest reproduces every symlink as a symlink with the same target string.
C16_SymlinksNotFollowed ==
    /\ \A i \in DOMAIN h_calls : h_calls[i].followed = {}
    /\ \A i \in CallsOf("ingest_package") :
          \A n \in SymlinksOf(dir_tree) :
              Written(<<n>>, "symlink", <<>>, dir_tree[n].target) \in h_calls[i].written

\* The part of C16 that holds: util::hash_directory records the link only.
C16_HashDirectoryKeepsLinks ==
    \A i \in CallsOf("hash_directory") : h_calls[i].followed = {}

\* An ingest and a calculate_hash of a tree holding a symlink to a file and a
\* symlink to a directory.
C16_Witness ==
    /\ dir_tree # <<>>
    /\ \E n, m \in SymlinksOf(dir_tree) :
          dir_tree[n].target = TargetFile /\ dir_tree[m].target = TargetDir
    /\ CallsOf("ingest_package") # {}
    /\ CallsOf("calculate_hash") # {}

\* ------------------------------------------------------------------------
\* Per-file deduplication of PackageIngestor::ingest_package (ingest.rs 56-157)
\* against the files table of the metadata store
\* ------------------------------------------------------------------------

PackageNames == {"p", "q"}

FileEntry(name, content) ==
    [relative_path |-> <<name>>, hash |-> DigestOf("sha256", content)]

\* The file entries scan_source_directory can return for a source tree holding
\* f, b or both: sorted by relative path.
FileEntryLists ==
    {<<FileEntry(n, c)>> : n \in {NameB, NameF}, c \in Contents}
    \cup {<<FileEntry(NameB, c), FileEntry(NameF, d)>> : c \in Contents, d \in Contents}

\* layout.package_path(hash, name) and store_path.join(relative_path).
StorePath(package_hash, name) == [hash |-> package_hash, name |-> name]

DestFile(store_path, relative_path) == [store_path |-> store_path, file |-> relative_path]

\* meta_store.find_file_by_hash (ingest.rs 237-240): a lookup in the files table.
FindExistingFile(index, file_hash) == file_hash \in DOMAIN index

\* Variant of TrackFile that records a path only for a hash that has none.
TrackFileIfAbsent(index, file_hash, path) == index @@ (file_hash :> path)

\* meta_store.track_file (ingest.rs 129): the files table maps the hash to the
\* path given.
TrackFile(index, file_hash, path) == (file_hash :> path) @@ index

\* The loop of lines 99-130 over the file entries processed: whether the file
\* is linked to an existing one or copied, its destination is tracked.
RECURSIVE IngestFiles(_, _, _)
IngestFiles(file_entries, store_path, index) ==
    IF file_entries = <<>> THEN index
    ELSE LET e == Head(file_entries)
         IN  IngestFiles(Tail(file_entries), store_path,
                         TrackFile(index, e.hash, DestFile(store_path, e.relative_path)))

\* The path recorded first for each hash (history): existing records win.
RECURSIVE FirstPaths(_, _, _)
FirstPaths(file_entries, store_path, first) ==
    IF file_entries = <<>> THEN first
    ELSE LET e == Head(file_entries)
         IN  FirstPaths(Tail(file_entries), store_path,
                        first @@ (e.hash :> DestFile(store_path, e.relative_path)))

\* The number of ingest_package calls.
MaxIngests == 2

\* ingest_package(name, _, source) for a source tree scanned as file_entries:
\* returns early when the package directory exists; otherwise creates it and
\* runs the loop, which may fail at any file (the files before it are done).
IngestPackageFiles(name, file_entries) ==
    LET store_path == StorePath(ComputePackageHash(file_entries), name)
    IN  /\ n_ingests < MaxIngests
        /\ n_ingests' = n_ingests + 1
        /\ IF store_path \in store_paths
           THEN UNCHANGED <<file_index, first_path, store_paths>>
           ELSE \E k \in 0..Len(file_entries) :
                   /\ store_paths' = store_paths \cup {store_path}
                   /\ file_index' = IngestFiles(SubSeq(file_entries, 1, k), store_path, file_index)
                   /\ first_path' = FirstPaths(SubSeq(file_entries, 1, k), store_path, first_path)
        /\ UNCHANGED notFiles

FilesNext == \E name \in PackageNames, file_entries \in FileEntryLists :
                 IngestPackageFiles(name, file_entries)

InitFiles == ResolverIdle /\ GenInit /\ StoreInit /\ ConcInit /\ TagsIdle /\ HashIdle /\ FilesInit /\ SweepIdle /\ RollbackInit /\ BuildIdle /\ MetaIdle /\ DedupIdle /\ TagCacheIdle /\ ListIdle /\ ConfigIdle /\ BackendIdle /\ IndexIdle /\ LoadIdle

SpecFiles == InitFiles /\ [][FilesNext]_vars

\* C17 -- Canonical-path uniqueness: after any sequence of ingests the files
\* table holds, for every file hash, the path registered by the ingest that
\* first introduced the hash; later files with the same hash neither add a
\* path nor replace it.
C17_CanonicalPathKept ==
    /\ DOMAIN file_index = DOMAIN first_path
    /\ \A h \in DOMAIN file_index : file_index[h] = first_path[h]

\* The part of C17 that holds: one path per file hash, a path of a package
\* directory that exists.
C17_OnePathPerHash ==
    \A h \in DOMAIN file_index : file_index[h].store_path \in store_paths

\* Two ingests, the second holding a file whose hash the first one introduced.
C17_Witness ==
    /\ n_ingests = 2
    /\ Cardinality(store_paths) = 2
    /\ \E h \in DOMAIN file_index :
          \E sp \in store_paths : first_path[h].store_path # sp

\* ------------------------------------------------------------------------
\* Ext4Store::empty_trash (mod.rs 399-423), step by step, called concurrently
\* ------------------------------------------------------------------------

\* The package directories .trash can hold: <<hash, timestamp>>.
TrashEntries == Hashes \X {0, 1}

\* Lines 400-407: `deleted` is empty and read_dir opens .trash; the entries
\* present are yielded in the filesystem's order.
EtReadDir(p) ==
    /\ et_pc[p] = "idle"
    /\ et_pc' = [et_pc EXCEPT ![p] = "next_entry"]
    /\ \E order \in Perms(trash) : walker' = [walker EXCEPT ![p] = order]
    /\ deleted' = [deleted EXCEPT ![p] = <<>>]
    /\ et_start' = [et_start EXCEPT ![p] = trash]
    /\ UNCHANGED <<et_failed, svars, cvars, notSweep>>

\* Lines 409-413 and 422: the next entry; path.is_dir() decides whether it is
\* removed. At the end of the listing the call returns Ok(deleted).
EtNextEntry(p) ==
    /\ et_pc[p] = "next_entry"
    /\ IF walker[p] = <<>>
       THEN /\ et_pc' = [et_pc EXCEPT ![p] = "ok"]
            /\ UNCHANGED walker
       ELSE IF Head(walker[p]) \in trash
            THEN /\ et_pc' = [et_pc EXCEPT ![p] = "remove"]
                 /\ UNCHANGED walker
            ELSE /\ walker' = [walker EXCEPT ![p] = Tail(walker[p])]
                 /\ UNCHANGED et_pc
    /\ UNCHANGED <<deleted, et_start, et_failed, svars, cvars, notSweep>>

\* Variant of RemoveDirAll whose error is skipped: the loop goes on with the
\* next entry.
RemoveDirAllLenient(p, entry, ok) ==
    /\ et_pc' = [et_pc EXCEPT ![p] = "next_entry"]
    /\ walker' = [walker EXCEPT ![p] = Tail(walker[p])]
    /\ trash' = IF ok THEN trash \ {entry} ELSE trash
    /\ deleted' = IF ok THEN [deleted EXCEPT ![p] = Append(deleted[p], entry)] ELSE deleted

\* Lines 414-417: remove_dir_all(path)?; deleted.push(name). An error ends the
\* call with Err, the entries after it are not looked at.
RemoveDirAll(p, entry, ok) ==
    IF ok
    THEN /\ et_pc' = [et_pc EXCEPT ![p] = "next_entry"]
         /\ walker' = [walker EXCEPT ![p] = Tail(walker[p])]
         /\ trash' = trash \ {entry}
         /\ deleted' = [deleted EXCEPT ![p] = Append(deleted[p], entry)]
    ELSE /\ et_pc' = [et_pc EXCEPT ![p] = "err"]
         /\ UNCHANGED <<walker, trash, deleted>>

\* The removal of the entry path.is_dir() accepted: it succeeds, fails with an
\* I/O error, or finds the directory gone (removed by another call meanwhile).
EtRemove(p) ==
    /\ et_pc[p] = "remove"
    /\ LET entry == Head(walker[p])
       IN  \E ok \in BOOLEAN :
              /\ ok => entry \in trash
              /\ RemoveDirAll(p, entry, ok)
              /\ et_failed' = IF ~ok /\ entry \in trash THEN et_failed \cup {entry} ELSE et_failed
    /\ UNCHANGED <<et_start, pkg_dir, meta_pkg, refcount, marked, now, pinned, s_last,
                   cvars, notSweep>>

SweepInit ==
    /\ et_pc = [p \in Callers |-> "idle"]
    /\ walker = [p \in Callers |-> <<>>]
    /\ deleted = [p \in Callers |-> <<>>]
    /\ et_start = [p \in Callers |-> {}]
    /\ et_failed = {}

\* The store after some packages were stored and marked for deletion.
TrashedStoreInit ==
    /\ pkg_dir = [h \in Hashes |-> "absent"]
    /\ meta_pkg = {}
    /\ refcount = [h \in Hashes |-> 0]
    /\ marked = {}
    /\ trash \in SUBSET TrashEntries
    /\ now = MaxTime
    /\ pinned = {}
    /\ s_last = NoCall

SweepNext == \E p \in Callers : EtReadDir(p) \/ EtNextEntry(p) \/ EtRemove(p)

InitSweep == ResolverIdle /\ GenInit /\ TrashedStoreInit /\ ConcInit /\ TagsIdle /\ HashIdle /\ FilesInit /\ SweepInit /\ RollbackInit /\ BuildIdle /\ MetaIdle /\ DedupIdle /\ TagCacheIdle /\ ListIdle /\ ConfigIdle /\ BackendIdle /\ IndexIdle /\ LoadIdle

SpecSweep == InitSweep /\ [][SweepNext]_vars

EtCallers == {p \in Callers : et_pc[p] # "idle"}

EtFinished == EtCallers # {} /\ \A p \in EtCallers : et_pc[p] \in {"ok", "err"}

\* The number of times an entry is reported by the calls that returned Ok.
TimesReported(entry) ==
    Cardinality({<<p, i>> \in Callers \X (1..Cardinality(TrashEntries)) :
                    /\ et_pc[p] = "ok"
                    /\ i \in DOMAIN deleted[p]
                    /\ deleted[p][i] = entry})

\* C18 -- empty_trash removes every entry exactly once: when the empty_trash
\* calls, one or several running concurrently, have ended without an I/O
\* failure, every package directory that was in .trash when a call started is
\* gone and is reported exactly once in the returned lists.
C18_EveryEntryOnce ==
    (EtFinished /\ et_failed = {})
    => \A p \in EtCallers : \A entry \in et_start[p] :
           entry \notin trash /\ TimesReported(entry) = 1

\* The part of C18 that holds for one call at a time.
C18_SingleCallComplete ==
    (EtFinished /\ et_failed = {} /\ Cardinality(EtCallers) = 1)
    => \A p \in EtCallers : \A entry \in et_start[p] :
           entry \notin trash /\ TimesReported(entry) = 1

\* Two concurrent calls on a trash of several entries have both returned Ok.
C18_Witness ==
    /\ \A p \in Callers : et_pc[p] = "ok" /\ Cardinality(et_start[p]) >= 2
    /\ \E p \in Callers : deleted[p] # <<>>
    /\ trash = {}

\* C19 -- A failure to remove one trash entry does not abort the sweep: when
\* a single empty_trash call has ended, every entry of .trash whose removal
\* did not fail is removed and reported.
C19_FailureDoesNotAbort ==
    (EtFinished /\ Cardinality(EtCallers) = 1)
    => \A p \in EtCallers :
           /\ trash = et_start[p] \cap et_failed
           /\ Range(deleted[p]) = et_start[p] \ et_failed

\* A call has ended on the failing removal of one entry of several.
C19_Witness ==
    \E p \in Callers :
        /\ EtCallers = {p}
        /\ et_pc[p] = "err"
        /\ et_failed # {}
        /\ Cardinality(et_start[p]) >= 2

\* ------------------------------------------------------------------------
\* The rollback command: execute_command, Commands::Rollback (main.rs 383-424)
\* ------------------------------------------------------------------------

\* pm.current_generation() (lib.rs 235-240): the generation the link `current`
\* points to, None without a link.
CurrentGeneration == current

\* generations.iter().filter(|g| Some(g.id) != current_id) (main.rs 390-392).
FilterNotCurrent(generations, current_id) ==
    LET NotCurrent(g) == {g} # current_id
    IN  SelectSeq(generations, NotCurrent)

\* Iterator::max_by_key: None for an empty list, otherwise the last of the
\* elements with the greatest key.
RECURSIVE MaxByKey(_)
MaxByKey(ids) ==
    IF ids = <<>> THEN None
    ELSE LET before == MaxByKey(SubSeq(ids, 1, Len(ids) - 1))
             g      == ids[Len(ids)]
         IN  IF before = None \/ \A b \in before : g >= b THEN {g} ELSE before

\* Variant of RollbackTarget without the filter: the latest generation.
RollbackTargetLatest(generations, current_id) == MaxByKey(generations)

\* Lines 389-393: `previous`.
RollbackTarget(generations, current_id) ==
    MaxByKey(FilterNotCurrent(generations, current_id))

\* The command with its flags and the answer given at the prompt. It activates
\* `previous` unless there is none, the run is dry or the answer is no;
\* activate_generation fails as switch_generation does when .current.tmp is
\* in the way, or for another I/O error.
Rollback(yes, global_dry_run, answer_yes) ==
    /\ g_pc = "idle"
    /\ LET generations == ListGenerations
           current_id  == CurrentGeneration
           previous    == RollbackTarget(generations, current_id)
           outcome     == IF previous = None THEN "no_previous"
                          ELSE IF ~yes /\ ~global_dry_run /\ ~answer_yes THEN "cancelled"
                          ELSE IF global_dry_run THEN "dry_run"
                          ELSE "activate"
       IN  \E io_ok \in BOOLEAN :
              LET activated == outcome = "activate" /\ temp_link = None /\ io_ok
              IN  /\ outcome = "activate" \/ io_ok
                  /\ current' = IF activated THEN previous ELSE current
                  /\ rollback' = [generations |-> gen_dirs, old |-> current,
                                  previous |-> previous,
                                  outcome |-> IF outcome = "activate" /\ ~activated
                                              THEN "activation_failed"
                                              ELSE IF activated THEN "activated" ELSE outcome,
                                  new |-> current']
    /\ UNCHANGED <<gen_dirs, manifest, temp_link, last_gen_id, g_pc, g_switch, created_ids,
                   notRollback>>

RollbackNext ==
    \/ CreateGeneration
    \/ \E gen_id \in GenIds : SwitchGeneration(gen_id)
    \/ \E gen_id \in GenIds : RemoveGeneration(gen_id)
    \/ \E yes, global_dry_run, answer_yes \in BOOLEAN : Rollback(yes, global_dry_run, answer_yes)

InitRollback == ResolverIdle /\ GenInit /\ StoreInit /\ ConcInit /\ TagsIdle /\ HashIdle /\ FilesInit /\ SweepIdle /\ RollbackInit /\ BuildIdle /\ MetaIdle /\ DedupIdle /\ TagCacheIdle /\ ListIdle /\ ConfigIdle /\ BackendIdle /\ IndexIdle /\ LoadIdle

SpecRollback == InitRollback /\ [][RollbackNext]_vars

C21_RollbackGoesBack ==
    (rollback.outcome = "activated" /\ rollback.old # None)
    => \A c \in rollback.old : \A n \in rollback.new : n < c

\* The part of C21 that holds: a rollback from the latest generation goes to
\* an older one.
C21_RollbackFromLatest ==
    (rollback.outcome = "activated" /\ rollback.old = {Max(rollback.generations)})
    => \A c \in rollback.old : \A n \in rollback.new : n < c

\* The spec's scenario: G1 and G2 exist, G2 is current, rollback makes G1
\* current.
C21_Witness ==
    /\ rollback.outcome = "activated"
    /\ rollback.generations = {1, 2}
    /\ rollback.old = {2}
    /\ rollback.new = {1}
    /\ current = {1}

\* ------------------------------------------------------------------------
\* NexisPackageManager::build_generation (lib.rs 147-178) and
\* ParallelBuilder::build_packages (packages/builder.rs 17-24)
\* ------------------------------------------------------------------------

\* PackageBuilder::build_package (called at lib.rs 161-164; its body is not
\* part of the sources): a successful build hands its staging tree to the
\* store, which commits the package; a failed build leaves the store as it was.
BuildPackage(store, name, ok) == IF ok THEN store \cup {name} ELSE store

\* The record of a build that starts: the package, what it declares, and what
\* the store holds at that moment.
BuildStart(pkg) ==
    [name |-> pkg.name, dependencies |-> pkg.dependencies, committed |-> committed]

\* resolve_all_packages, lines 142-147 of resolver.rs: resolve_package_version
\* fails for some package ('latest' without a source, a failing tag probe) and
\* `?` returns before resolve_dependencies is called.
BgVersionFailed ==
    /\ bg_pc = "resolving"
    /\ r_pc = "start"
    /\ packages # <<>>
    /\ r_pc' = "done"
    /\ r_result' = [NoResult EXCEPT !.kind = "VersionResolution"]
    /\ bg_pc' = "resolve_err"
    /\ UNCHANGED <<packages, package_map, in_degree, queue, build_order, processed,
                   bg_rest, built_packages, committed, bg_log, gvars, notBuild>>

\* lib.rs 151-156: resolve_all_packages has returned; `?` on its error.
BgResolved ==
    /\ bg_pc = "resolving"
    /\ r_pc = "done"
    /\ IF r_result.kind = "ok"
       THEN /\ bg_rest' = r_result.ordered
            /\ bg_pc' = "building"
       ELSE /\ bg_pc' = "resolve_err"
            /\ UNCHANGED bg_rest
    /\ UNCHANGED <<built_packages, committed, bg_log, rvars, gvars, notBuild>>

\* One iteration of the loop of lib.rs 160-166: build the next resolved
\* package; `?` returns on the first failing build.
BgBuildPackage ==
    /\ bg_pc = "building"
    /\ bg_rest # <<>>
    /\ LET pkg_config == Head(bg_rest)
       IN  /\ bg_log' = Append(bg_log, BuildStart(pkg_config))
           /\ \E ok \in BOOLEAN :
                 /\ committed' = BuildPackage(committed, pkg_config.name, ok)
                 /\ IF ok
                    THEN /\ built_packages' = Append(built_packages, pkg_config.name)
                         /\ bg_rest' = Tail(bg_rest)
                         /\ UNCHANGED bg_pc
                    ELSE /\ bg_pc' = "build_err"
                         /\ UNCHANGED <<built_packages, bg_rest>>
    /\ UNCHANGED <<rvars, gvars, notBuild>>

\* lib.rs 169-177: every package is built; create_generation(built_packages)
\* as in CreateGeneration, `?` on its error.
BgCreateGeneration ==
    /\ bg_pc = "building"
    /\ bg_rest = <<>>
    /\ g_pc = "idle"
    /\ NextGenerationId <= MaxGenId
    /\ LET gen_id == NextGenerationId
       IN  /\ last_gen_id' = gen_id
           /\ \E outcome \in {"ok", "mkdir_failed", "write_failed"} :
                 /\ gen_dirs' = IF outcome = "mkdir_failed" THEN gen_dirs
                                ELSE gen_dirs \cup {gen_id}
                 /\ manifest' = IF outcome = "ok"
                                THEN [manifest EXCEPT ![gen_id] = Range(built_packages)]
                                ELSE manifest
                 /\ created_ids' = IF outcome = "ok" THEN Append(created_ids, gen_id)
                                   ELSE created_ids
                 /\ bg_pc' = IF outcome = "ok" THEN "ok" ELSE "create_err"
    /\ UNCHANGED <<current, temp_link, g_pc, g_switch,
                   bg_rest, built_packages, committed, bg_log, rvars, notBuild>>

\* ParallelBuilder::build_packages (builder.rs 17-24) called with the
\* configured packages: par_iter() hands the items to the pool.
ParBuildPackages ==
    /\ bg_pc = "resolving"
    /\ r_pc = "start"
    /\ packages # <<>>
    /\ r_pc' = "idle"
    /\ bg_pc' = "par"
    /\ bg_rest' = packages
    /\ UNCHANGED <<packages, package_map, in_degree, queue, build_order, processed, r_result,
                   built_packages, committed, bg_log, gvars, notBuild>>

\* A pool thread takes an item, whichever is free, and enters build_package
\* (builder.rs 21, 26).
ParBuildStart(i) ==
    /\ bg_pc = "par"
    /\ i \in DOMAIN bg_rest
    /\ bg_log' = Append(bg_log, BuildStart(bg_rest[i]))
    /\ bg_rest' = SubSeq(bg_rest, 1, i - 1) \o SubSeq(bg_rest, i + 1, Len(bg_rest))
    /\ UNCHANGED <<bg_pc, built_packages, committed, rvars, gvars, notBuild>>

\* build_package is `todo!()` (builder.rs 26-29): every call panics, and the
\* panic of a task is propagated out of pool.install.
ParBuildPanic ==
    /\ bg_pc = "par"
    /\ bg_log # <<>>
    /\ bg_pc' = "panicked"
    /\ UNCHANGED <<bg_rest, built_packages, committed, bg_log, rvars, gvars, notBuild>>

\* build_generation, or build_packages, is entered with a configuration.
BuildInit ==
    /\ bg_pc = "resolving"
    /\ bg_rest = <<>>
    /\ built_packages = <<>>
    /\ committed = {}
    /\ bg_log = <<>>

BuildNext ==
    \/ BgVersionFailed
    \/ BuildGraph
    \/ KahnStep
    \/ FinishResolve
    \/ BgResolved
    \/ BgBuildPackage
    \/ BgCreateGeneration
    \/ ParBuildPackages
    \/ \E i \in 1..MaxPkgs : ParBuildStart(i)
    \/ ParBuildPanic

InitBuild == ResolverInit /\ GenInit /\ StoreInit /\ ConcInit /\ TagsIdle /\ HashIdle /\ FilesInit /\ SweepIdle /\ RollbackInit /\ BuildInit /\ MetaIdle /\ DedupIdle /\ TagCacheIdle /\ ListIdle /\ ConfigIdle /\ BackendIdle /\ IndexIdle /\ LoadIdle

SpecBuild == InitBuild /\ [][BuildNext]_vars

\* C22 -- Build ordering: within one build_generation, and within one
\* ParallelBuilder::build_packages, the build of a package never starts before
\* every package it declares as a dependency is built and committed to the
\* store.
C22_BuildOrdering ==
    \A i \in DOMAIN bg_log : Range(bg_log[i].dependencies) \subseteq bg_log[i].committed

\* The part of C22 that holds: the loop of build_generation builds exactly the
\* resolver's output, in the resolver's order.
C22_BuildsInResolverOrder ==
    bg_pc \in {"building", "ok"}
    => /\ built_packages \o [i \in DOMAIN bg_rest |-> bg_rest[i].name]
            = [i \in DOMAIN r_result.ordered |-> r_result.ordered[i].name]
       /\ committed = Range(built_packages)

\* A build_generation of a package with a dependency has built both and
\* created the generation.
C22_Witness ==
    /\ bg_pc = "ok"
    /\ Len(built_packages) >= 2
    /\ \E i \in DOMAIN bg_log : bg_log[i].dependencies # <<>>
    /\ gen_dirs # {}

\* C23 -- No partial commit on build failure: when resolving or building a
\* package has failed during build_generation, no generation is created, and
\* the generation list and the set of packages committed to the store are
\* what they were before the call (both empty in BuildInit and GenInit).
C23_NoPartialCommit ==
    bg_pc \in {"resolve_err", "build_err"}
    => /\ gen_dirs = {}
       /\ created_ids = <<>>
       /\ committed = {}

\* The part of C23 that holds: a failed resolution commits nothing, and a
\* failed build creates no generation and allocates no generation id.
C23_NoGenerationOnFailure ==
    /\ bg_pc \in {"resolve_err", "build_err"}
       => gen_dirs = {} /\ created_ids = <<>> /\ last_gen_id = 0
    /\ bg_pc = "resolve_err" => committed = {} /\ bg_log = <<>>

\* The build of the second package of a build_generation has failed.
C23_Witness ==
    /\ bg_pc = "build_err"
    /\ Len(bg_log) = 2
    /\ Len(built_packages) = 1
    /\ gen_dirs = {}

\* ------------------------------------------------------------------------
\* The commands and their dry-run flags: execute_command (main.rs 246-424)
\* ------------------------------------------------------------------------

\* The store after the successful ingest of one built tree (ingest.rs 74-89
\* for a package that is there, 91-157 for a new one).
CommitTree(st, t) ==
    LET h == PackageHash(t) IN
    IF st.dirs[h] # "absent"
    THEN [st EXCEPT !.rc = IncrementRefcount(st.rc, h)]
    ELSE [dirs |-> [st.dirs EXCEPT ![h] = "complete"],
          meta |-> st.meta \cup {h},
          rc   |-> [st.rc EXCEPT ![h] = 1]]

\* The loop of build_generation (lib.rs 160-166) over the trees it builds.
RECURSIVE CommitAll(_, _)
CommitAll(st, built) ==
    IF built = {} THEN st
    ELSE LET t == CHOOSE x \in built : TRUE
         IN  CommitAll(CommitTree(st, t), built \ {t})

\* The staging trees that the builds of this part produce.
CliTrees == {"t1"}

\* Commands::Build (main.rs 253-283): `dry_run || global_dry_run` selects the
\* messages only; pm.build_generation() is called in either case (line 271).
\* It commits the packages it builds, as many as were built before a build
\* fails, and then creates the generation as CreateGeneration does.
CmdBuild(dry_run, global_dry_run) ==
    /\ g_pc = "idle"
    /\ NextGenerationId <= MaxGenId
    /\ \E built \in SUBSET CliTrees :
       \E outcome \in {"ok", "build_failed", "mkdir_failed", "write_failed"} :
          LET st     == CommitAll([dirs |-> pkg_dir, meta |-> meta_pkg, rc |-> refcount], built)
              gen_id == NextGenerationId
          IN  /\ \A t \in built : refcount[PackageHash(t)] < MaxRef
              /\ pkg_dir' = st.dirs
              /\ meta_pkg' = st.meta
              /\ refcount' = st.rc
              /\ last_gen_id' = IF outcome = "build_failed" THEN last_gen_id ELSE gen_id
              /\ gen_dirs' = IF outcome \in {"build_failed", "mkdir_failed"} THEN gen_dirs
                             ELSE gen_dirs \cup {gen_id}
              /\ manifest' = IF outcome = "ok"
                             THEN [manifest EXCEPT ![gen_id] = {PackageHash(t) : t \in built}]
                             ELSE manifest
              /\ created_ids' = IF outcome = "ok" THEN Append(created_ids, gen_id)
                                ELSE created_ids
    /\ UNCHANGED <<current, temp_link, g_pc, g_switch,
                   marked, trash, now, pinned, s_last, cvars, notCli>>

\* Commands::Activate (main.rs 285-302): the global flag returns before
\* pm.activate_generation is called.
CmdActivate(generation_id, global_dry_run) ==
    IF global_dry_run
    THEN g_pc = "idle" /\ UNCHANGED vars
    ELSE SwitchGeneration(generation_id)

\* Commands::Gc (main.rs 358-381): pm.collect_garbage(dry_run || global_dry_run).
CmdGc(dry_run, global_dry_run) ==
    /\ g_pc = "idle"
    /\ CollectGarbage(dry_run \/ global_dry_run)

CliNext ==
    \/ \E t \in CliTrees : IngestPackage(t)
    \/ \E dry_run, global_dry_run \in BOOLEAN : CmdBuild(dry_run, global_dry_run)
    \/ \E gen_id \in GenIds, global_dry_run \in BOOLEAN : CmdActivate(gen_id, global_dry_run)
    \/ \E yes, global_dry_run, answer_yes \in BOOLEAN : Rollback(yes, global_dry_run, answer_yes)
    \/ \E dry_run, global_dry_run \in BOOLEAN : CmdGc(dry_run, global_dry_run)

InitCli == ResolverIdle /\ GenInit /\ StoreInit /\ ConcInit /\ TagsIdle /\ HashIdle /\ FilesInit /\ SweepIdle /\ RollbackInit /\ BuildIdle /\ MetaIdle /\ DedupIdle /\ TagCacheIdle /\ ListIdle /\ ConfigIdle /\ BackendIdle /\ IndexIdle /\ LoadIdle

SpecCli == InitCli /\ [][CliNext]_vars

\* What a dry run has to leave alone: the generations, the current
\* generation, and the packages of the store and of its trash.
SystemState ==
    <<gen_dirs, manifest, current, temp_link, last_gen_id,
      pkg_dir, meta_pkg, refcount, marked, trash>>

\* A step of the Activate, Rollback or Gc command with dry-run set.
DryRunOtherCommand ==
    \/ \E gen_id \in GenIds : CmdActivate(gen_id, TRUE)
    \/ \E yes, answer_yes \in BOOLEAN : Rollback(yes, TRUE, answer_yes)
    \/ \E dry_run, global_dry_run \in BOOLEAN :
          (dry_run \/ global_dry_run) /\ CmdGc(dry_run, global_dry_run)

\* A step of the Build command with dry-run set.
DryRunBuild ==
    \E dry_run, global_dry_run \in BOOLEAN :
        (dry_run \/ global_dry_run) /\ CmdBuild(dry_run, global_dry_run)

\* C24 -- Dry run changes nothing: with the global --dry-run flag or the
\* command's own --dry-run, the Build, Activate, Rollback and Gc commands leave
\* the system unchanged: no generation is created, the current generation is
\* unchanged, no package is built, ingested, trashed or deleted.
C24_DryRunChangesNothing ==
    [][(DryRunBuild \/ DryRunOtherCommand) => UNCHANGED SystemState]_vars

\* The part of C24 that holds: Activate, Rollback and Gc.
C24_DryRunOfOtherCommands ==
    [][DryRunOtherCommand => UNCHANGED SystemState]_vars

\* Dry runs of Rollback and Gc have been made in a system with two
\* generations and a package that a real collection would trash.
C24_Witness ==
    /\ rollback.outcome = "dry_run"
    /\ s_last = [op |-> "collect_garbage", dry_run |-> TRUE, kind |-> "ok"]
    /\ Cardinality(gen_dirs) >= 2
    /\ {h \in GcCandidates : FindPackageByHash(h)} # {}

\* ------------------------------------------------------------------------
\* Interrupted activation and Ext4Store::verify (mod.rs 466-478)
\* ------------------------------------------------------------------------

\* Ext4Store::verify: the checks are not implemented; it logs, touches
\* nothing, whatever fix_errors is, and returns an empty list of issues.
Verify(fix_errors) ==
    /\ g_pc = "idle"
    /\ s_last' = [op |-> "verify", fix_errors |-> fix_errors, issues |-> <<>>]
    /\ UNCHANGED <<pkg_dir, meta_pkg, refcount, marked, trash, now, pinned, notStore, cvars>>

\* The generations directory with activations that may be interrupted, and
\* verify runs between them.
VerifyNext ==
    \/ CreateGeneration
    \/ \E gen_id \in GenIds : SwitchBegin(gen_id)
    \/ SwitchRename
    \/ SwitchInterrupted
    \/ \E fix_errors \in BOOLEAN : Verify(fix_errors)

InitVerify == ResolverIdle /\ GenInit /\ StoreInit /\ ConcInit /\ TagsIdle /\ HashIdle /\ FilesInit /\ SweepIdle /\ RollbackInit /\ BuildIdle /\ MetaIdle /\ DedupIdle /\ TagCacheIdle /\ ListIdle /\ ConfigIdle /\ BackendIdle /\ IndexIdle /\ LoadIdle

SpecVerify == InitVerify /\ [][VerifyNext]_vars

\* C25 -- Interrupted activation: when switch_generation is killed or fails
\* after creating the temporary symlink and before the rename, current still
\* targets the pre-activation generation, and after the next verify no orphan
\* generations/.current.tmp remains.
C25_InterruptedActivation ==
    [][/\ SwitchInterrupted => current' = g_switch.old
       /\ (\E fix_errors \in BOOLEAN : Verify(fix_errors)) => temp_link' = None]_vars

\* The part of C25 that holds: current is the pre-activation generation
\* whenever the last switch_generation was interrupted.
C25_CurrentKept ==
    g_switch.phase = "interrupted" => current = g_switch.old /\ temp_link = g_switch.new

\* An activation from a current generation was interrupted, verify has run,
\* and .current.tmp is still there.
C25_Witness ==
    /\ g_switch.phase = "interrupted"
    /\ s_last.op = "verify"
    /\ current # None
    /\ current = g_switch.old
    /\ temp_link # None

\* ------------------------------------------------------------------------
\* MetadataStore (meta/mod.rs): mutations on the cache, persist, and a crash
\* followed by a reopen
\* ------------------------------------------------------------------------

FileIds == {"f1", "f2"}

\* Largest number of mutations made on the metadata store.
MaxMetaOps == 3

\* The four tables of a cache.
Tables(c) ==
    [files |-> c.files, versions |-> c.versions, search_index |-> c.search_index,
     total_files |-> c.total_files]

\* add_file (lines 139-172), with enable_versioning (the default): the file
\* and its version history are inserted, update_stats adds one file.
AddFileTo(c, id) ==
    [c EXCEPT !.files = c.files \cup {id},
              !.versions = c.versions \cup {id},
              !.total_files = c.total_files + 1,
              !.dirty = TRUE]

\* delete_file (lines 223-243).
DeleteFileFrom(c, id) ==
    [c EXCEPT !.files = c.files \ {id},
              !.versions = c.versions \ {id},
              !.search_index = c.search_index \ {id},
              !.total_files = c.total_files - 1,
              !.dirty = TRUE]

\* load_metadata (lines 352-387): each table is read from its own key when
\* the key exists, otherwise it keeps its default.
LoadMetadata(b) ==
    [files        |-> IF b.files = <<>> THEN {} ELSE b.files[1],
     versions     |-> IF b.versions = <<>> THEN {} ELSE b.versions[1],
     search_index |-> IF b.search_index = <<>> THEN {} ELSE b.search_index[1],
     total_files  |-> IF b.total_files = <<>> THEN 0 ELSE b.total_files[1],
     dirty        |-> FALSE]

AddFile(id) ==
    /\ persist_pc = "idle"
    /\ Len(returned) < MaxMetaOps
    /\ cache' = AddFileTo(cache, id)
    /\ returned' = Append(returned, Tables(cache'))
    /\ UNCHANGED <<backend, persist_pc, notMeta>>

DeleteFile(id) ==
    /\ persist_pc = "idle"
    /\ Len(returned) < MaxMetaOps
    /\ id \in cache.files
    /\ cache' = DeleteFileFrom(cache, id)
    /\ returned' = Append(returned, Tables(cache'))
    /\ UNCHANGED <<backend, persist_pc, notMeta>>

\* update_search_index (lines 300-310), with enable_search_index (the default).
UpdateSearchIndex(id) ==
    /\ persist_pc = "idle"
    /\ Len(returned) < MaxMetaOps
    /\ cache' = [cache EXCEPT !.search_index = cache.search_index \cup {id}, !.dirty = TRUE]
    /\ returned' = Append(returned, Tables(cache'))
    /\ UNCHANGED <<backend, persist_pc, notMeta>>

\* One backend.put of persist (lines 320-349): the key is written and persist
\* goes on, or the put fails and `?` returns with dirty still set.
PersistPut(at, key, then) ==
    /\ persist_pc = at
    /\ cache.dirty
    /\ \E ok \in BOOLEAN :
          /\ backend' = IF ok THEN [backend EXCEPT ![key] = <<cache[key]>>] ELSE backend
          /\ persist_pc' = IF ok THEN then ELSE "idle"
    /\ UNCHANGED <<cache, returned, notMeta>>

\* Lines 327-329, 331-334, 336-339 and 341-342.
PersistFiles ==
    /\ persist_pc = "idle"
    /\ PersistPut("idle", "files", "put_versions")

PersistVersions ==
    /\ persist_pc = "put_versions"
    /\ PersistPut("put_versions", "versions", "put_search_index")

PersistSearchIndex ==
    /\ persist_pc = "put_search_index"
    /\ PersistPut("put_search_index", "search_index", "put_stats")

PersistStats ==
    /\ persist_pc = "put_stats"
    /\ PersistPut("put_stats", "total_files", "put_config")

\* Lines 344-348: the configuration is written and dirty is cleared.
PersistConfig ==
    /\ persist_pc = "put_config"
    /\ \E ok \in BOOLEAN :
          cache' = IF ok THEN [cache EXCEPT !.dirty = FALSE] ELSE cache
    /\ persist_pc' = "idle"
    /\ UNCHANGED <<backend, returned, notMeta>>

\* The process dies, between two calls or inside persist: the cache is gone.
\* Whether unpersisted changes were lost is kept to tell the two cases apart.
Crash ==
    /\ persist_pc \notin {"crashed_clean", "crashed_dirty", "reopened_clean", "reopened_dirty"}
    /\ returned # <<>>
    /\ persist_pc' = IF cache.dirty THEN "crashed_dirty" ELSE "crashed_clean"
    /\ cache' = EmptyCache
    /\ UNCHANGED <<backend, returned, notMeta>>

\* MetadataStore::new on the same backend (lines 121-136).
Reopen ==
    /\ persist_pc \in {"crashed_clean", "crashed_dirty"}
    /\ cache' = LoadMetadata(backend)
    /\ persist_pc' = IF persist_pc = "crashed_clean" THEN "reopened_clean" ELSE "reopened_dirty"
    /\ UNCHANGED <<backend, returned, notMeta>>

MetaNext ==
    \/ \E id \in FileIds : AddFile(id)
    \/ \E id \in FileIds : DeleteFile(id)
    \/ \E id \in FileIds : UpdateSearchIndex(id)
    \/ PersistFiles
    \/ PersistVersions
    \/ PersistSearchIndex
    \/ PersistStats
    \/ PersistConfig
    \/ Crash
    \/ Reopen

InitMeta == ResolverIdle /\ GenInit /\ StoreInit /\ ConcInit /\ TagsIdle /\ HashIdle /\ FilesInit /\ SweepIdle /\ RollbackInit /\ BuildIdle /\ MetaIdle /\ DedupIdle /\ TagCacheIdle /\ ListIdle /\ ConfigIdle /\ BackendIdle /\ IndexIdle /\ LoadIdle

SpecMeta == InitMeta /\ [][MetaNext]_vars

\* The tables after the mutations that returned, from none of them to all.
PrefixStates == {Tables(EmptyCache)} \cup Range(returned)

\* The tables after every mutation that returned.
LastReturned == returned[Len(returned)]

Reopened == persist_pc \in {"reopened_clean", "reopened_dirty"}

\* C26 -- Index crash-safety: every metadata mutation is durable once the
\* mutating operation has returned, and a partially written update is
\* invisible on reopen: the store reopened after a crash holds the state
\* produced by a prefix of the completed operations, never a mixture of
\* tables of different states.
C26_CrashSafety ==
    Reopened => /\ Tables(cache) = LastReturned
                /\ Tables(cache) \in PrefixStates

\* The first half of C26 alone: durability.
C26_Durable == Reopened => Tables(cache) = LastReturned

\* The second half of C26 alone: no mixture.
C26_NoMixture == Reopened => Tables(cache) \in PrefixStates

\* The part of C26 that holds: what a completed persist has written is there
\* after a crash, when no mutation followed the persist.
C26_PersistedSurvives ==
    persist_pc = "reopened_clean" => Tables(cache) = LastReturned

\* A store with several mutations, persisted, has crashed and was reopened.
C26_Witness ==
    /\ persist_pc = "reopened_clean"
    /\ Len(returned) >= 2
    /\ cache.files # {}
    /\ cache.search_index # {}

\* ------------------------------------------------------------------------
\* Per-file ingest: the loop of ingest_package (ingest.rs 99-130), reflink_copy
\* (nexis_pm store/reflink.rs) and set_executable (ingest.rs 243-250)
\* ------------------------------------------------------------------------

\* Permission bits of a file mode.
ExecBits == {"ux", "gx", "ox"}

Mode644 == {"ur", "uw", "gr", "or"}

Mode700 == {"ur", "uw", "ux"}

Mode755 == {"ur", "uw", "ux", "gr", "gx", "or", "ox"}

FileModes == {Mode644, Mode700, Mode755}

\* scan_source_directory, lines 177-184: mode & 0o111 != 0.
IsExecutable(mode) == mode \cap ExecBits # {}

\* set_executable: mode | 0o755.
SetExecutable(mode) == mode \cup Mode755

\* The mode of a file created by open(O_CREAT, 0o666) under the umask 022.
CreatedMode == Mode644

\* What reflink() may return.
ReflinkResults == {"ok", "Unsupported", "CrossesDevices"}

\* A file that is not there, and a call that did not produce one.
NoFile == <<>>

\* std::fs::copy: the content and the permission bits of src.
FsCopy(src, copy_ok) ==
    IF copy_ok THEN [ok |-> TRUE, file |-> <<src>>] ELSE [ok |-> FALSE, file |-> NoFile]

\* reflink_copy (reflink.rs 4-14): a clone of src's blocks in a new file; a
\* copy when the error kind is Unsupported; the error itself for any other
\* kind.
ReflinkCopy(src, reflink, copy_ok) ==
    CASE reflink = "ok" ->
            [ok |-> TRUE, file |-> <<[content |-> src.content, mode |-> CreatedMode]>>]
      [] reflink = "Unsupported" -> FsCopy(src, copy_ok)
      [] OTHER -> [ok |-> FALSE, file |-> NoFile]

\* The files of a source tree, sorted by relative path, each with the stored
\* file of the same content hash when there is one (find_existing_file).
DedupNames == <<"a", "b">>

DedupContents == {"x", "y"}

DedupEntry ==
    [content : DedupContents, mode : FileModes,
     existing : {NoFile} \cup {<<m>> : m \in FileModes}]

\* Largest number of files in an ingested tree.
MaxDedupFiles == 2

DedupFileLists ==
    UNION {{[i \in 1..n |-> [name |-> DedupNames[i], content |-> es[i].content,
                             mode |-> es[i].mode, existing |-> es[i].existing]] :
                es \in [1..n -> DedupEntry]} : n \in 0..MaxDedupFiles}

\* One iteration of the loop of lines 99-130.  A file whose hash is known is
\* handed to backend.deduplicate_file with the stored path as source, the
\* reflink backend's primitive being reflink_copy, and `?` returns its error;
\* a new file is copied and made executable when the source is.
DdIngestFile ==
    /\ dd_pc = "running"
    /\ dd_files # <<>>
    /\ LET file_entry == Head(dd_files)
           source     == [content |-> file_entry.content, mode |-> file_entry.mode]
       IN  \E reflink \in ReflinkResults, copy_ok \in BOOLEAN, chmod_ok \in BOOLEAN :
              LET deduplicate == file_entry.existing # NoFile
                  existing    == [content |-> file_entry.content, mode |-> file_entry.existing[1]]
                  copied      == FsCopy(source, copy_ok)
                  r == IF deduplicate THEN ReflinkCopy(existing, reflink, copy_ok)
                       ELSE IF copied.ok /\ IsExecutable(file_entry.mode)
                            THEN [ok   |-> chmod_ok,
                                  file |-> IF chmod_ok
                                           THEN <<[content |-> source.content,
                                                   mode |-> SetExecutable(source.mode)]>>
                                           ELSE copied.file]
                            ELSE copied
              IN  /\ deduplicate \/ reflink = "ok"
                  /\ (deduplicate \/ ~copied.ok \/ ~IsExecutable(file_entry.mode)) => chmod_ok
                  /\ dd_dest' = (file_entry.name :> r.file) @@ dd_dest
                  /\ dd_log' = Append(dd_log,
                                  [name |-> file_entry.name, source |-> source,
                                   deduplicated |-> deduplicate,
                                   reflink |-> reflink, copy_ok |-> copy_ok, ok |-> r.ok])
                  /\ dd_pc' = IF r.ok THEN "running" ELSE "err"
                  /\ dd_files' = Tail(dd_files)
    /\ UNCHANGED notDedup

\* The loop has handled every file.
DdFinish ==
    /\ dd_pc = "running"
    /\ dd_files = <<>>
    /\ dd_pc' = "ok"
    /\ UNCHANGED <<dd_files, dd_dest, dd_log, notDedup>>

DedupInit ==
    /\ dd_pc = "running"
    /\ dd_files \in DedupFileLists
    /\ dd_dest = <<>>
    /\ dd_log = <<>>

DedupNext == DdIngestFile \/ DdFinish

InitDedup == ResolverIdle /\ GenInit /\ StoreInit /\ ConcInit /\ TagsIdle /\ HashIdle /\ FilesInit /\ SweepIdle /\ RollbackInit /\ BuildIdle /\ MetaIdle /\ DedupInit /\ TagCacheIdle /\ ListIdle /\ ConfigIdle /\ BackendIdle /\ IndexIdle /\ LoadIdle

SpecDedup == InitDedup /\ [][DedupNext]_vars

\* C27 -- Per-file fallback to copy: when the preferred deduplication method
\* fails on a file, for any reason, the file is retried as a plain copy and the
\* ingest continues: the destination then has the source's content, and the
\* operation fails only if the copy itself fails.
C27_FallbackToCopy ==
    \A i \in DOMAIN dd_log :
        LET e == dd_log[i] IN
        (e.deduplicated /\ e.reflink # "ok")
        => /\ e.ok <=> e.copy_ok
           /\ e.ok => /\ dd_dest[e.name] # NoFile
                      /\ dd_dest[e.name][1].content = e.source.content

\* The part of C27 that holds: the fallback when the filesystem does not
\* support reflinks.
C27_FallbackWhenUnsupported ==
    \A i \in DOMAIN dd_log :
        LET e == dd_log[i] IN
        (e.deduplicated /\ e.reflink = "Unsupported")
        => /\ e.ok <=> e.copy_ok
           /\ e.ok => /\ dd_dest[e.name] # NoFile
                      /\ dd_dest[e.name][1].content = e.source.content

\* An ingest of two files has ended well, a reflink having failed as
\* unsupported and the copy made in its place.
C27_Witness ==
    /\ dd_pc = "ok"
    /\ Len(dd_log) = 2
    /\ \E i \in DOMAIN dd_log :
          /\ dd_log[i].deduplicated
          /\ dd_log[i].reflink = "Unsupported"
          /\ dd_log[i].ok
          /\ dd_dest[dd_log[i].name][1].content = dd_log[i].source.content

\* C30 -- Executable bit is preserved: for every regular file of an ingested
\* package, the stored file is executable iff the source file was, whether
\* the file was newly copied or deduplicated against a stored file with the
\* same content hash.
C30_ExecutableBitPreserved ==
    \A i \in DOMAIN dd_log :
        LET e == dd_log[i] IN
        e.ok => /\ dd_dest[e.name] # NoFile
                /\ IsExecutable(dd_dest[e.name][1].mode) <=> IsExecutable(e.source.mode)

\* The part of C30 that holds: the files that are newly copied.
C30_CopiedFilesKeepExecutableBit ==
    \A i \in DOMAIN dd_log :
        LET e == dd_log[i] IN
        (e.ok /\ ~e.deduplicated)
        => /\ dd_dest[e.name] # NoFile
           /\ IsExecutable(dd_dest[e.name][1].mode) <=> IsExecutable(e.source.mode)

\* An ingest has copied an executable file and a plain one, and both have
\* kept what they were.
C30_Witness ==
    /\ dd_pc = "ok"
    /\ Len(dd_log) = 2
    /\ \A i \in DOMAIN dd_log : ~dd_log[i].deduplicated
    /\ IsExecutable(dd_log[1].source.mode) /\ IsExecutable(dd_dest["a"][1].mode)
    /\ ~IsExecutable(dd_log[2].source.mode) /\ ~IsExecutable(dd_dest["b"][1].mode)

\* ---------------------------------------------------------------------------
\* The git tag cache of PackageResolver (resolver.rs 112-135, 209-274)
\* ---------------------------------------------------------------------------

\* cache_ttl: Duration::from_secs(300) (resolver.rs 133).
CacheTtl == 300

\* The seconds one step of the clock moves SystemTime by.
TickSeconds == 150

\* The clock stops here.
MaxWall == 600

\* The tag lists a remote may print.
RemoteTagLists ==
    {<<>>,
     << <<"v", "1", ".", "0", ".", "0">> >>,
     << <<"v", "1", ".", "0", ".", "0">>, <<"v", "1", ".", "1", ".", "0">> >>}

\* SystemTime::elapsed: Err when the timestamp is later than the current time.
Elapsed(timestamp, t) ==
    IF t >= timestamp THEN [ok |-> TRUE, secs |-> t - timestamp]
                      ELSE [ok |-> FALSE, secs |-> 0]

\* The same test with <= for <: an entry of exactly cache_ttl seconds still counts.
IsFreshInclusive(cached, t) ==
    LET e == Elapsed(cached.timestamp, t)
    IN  (IF e.ok THEN e.secs ELSE CacheTtl) <= CacheTtl

\* cached.timestamp.elapsed().unwrap_or(self.cache_ttl) < self.cache_ttl (line 214).
IsFresh(cached, t) ==
    LET e == Elapsed(cached.timestamp, t)
    IN  (IF e.ok THEN e.secs ELSE CacheTtl) < CacheTtl

\* resolve_latest_git_tag(package_name, repo_url). probe_ok is the exit status of
\* git ls-remote. The cache is read first; a fresh entry answers the call. Else
\* the probe runs: a failed probe and an empty tag list return an error and leave
\* the cache alone, any other list is inserted with the current time.
ResolveLatestGitTag(repo_url, probe_ok) ==
    LET before == tag_cache[repo_url]
        hit    == before # <<>> /\ IsFresh(before[1], wall)
        printed == remote_tags[repo_url]
        call   == [repo_url |-> repo_url, at |-> wall, before |-> before]
    IN  /\ IF hit
           THEN /\ resolution' = [kind |-> "cached", call |-> call, probed |-> FALSE,
                                  tags |-> before[1].tags,
                                  result |-> FindLatestSemverTagOf(before[1].tags)]
                /\ UNCHANGED tag_cache
           ELSE IF ~probe_ok
           THEN /\ resolution' = [kind |-> "GitError", call |-> call, probed |-> TRUE,
                                  tags |-> <<>>,
                                  result |-> [kind |-> "GitError", tag |-> <<>>]]
                /\ UNCHANGED tag_cache
           ELSE IF printed = <<>>
           THEN /\ resolution' = [kind |-> "NoValidTags", call |-> call, probed |-> TRUE,
                                  tags |-> <<>>,
                                  result |-> [kind |-> "NoValidTags", tag |-> <<>>]]
                /\ UNCHANGED tag_cache
           ELSE /\ resolution' = [kind |-> "probed", call |-> call, probed |-> TRUE,
                                  tags |-> printed,
                                  result |-> FindLatestSemverTagOf(printed)]
                /\ tag_cache' = [tag_cache EXCEPT ![repo_url] =
                                    <<[tags |-> printed, timestamp |-> wall]>>]
        /\ UNCHANGED <<remote_tags, wall, notTagCache>>

\* Time passes.
WallTick ==
    /\ wall + TickSeconds <= MaxWall
    /\ wall' = wall + TickSeconds
    /\ UNCHANGED <<tag_cache, remote_tags, resolution, notTagCache>>

\* The system clock is set back: SystemTime is not monotonic.
ClockSetBack ==
    /\ wall >= TickSeconds
    /\ wall' = wall - TickSeconds
    /\ UNCHANGED <<tag_cache, remote_tags, resolution, notTagCache>>

\* The remote gets another tag list.
RemoteChange(repo_url, printed) ==
    /\ remote_tags[repo_url] # printed
    /\ remote_tags' = [remote_tags EXCEPT ![repo_url] = printed]
    /\ UNCHANGED <<tag_cache, wall, resolution, notTagCache>>

TagCacheInit ==
    /\ tag_cache = [u \in RepoUrls |-> <<>>]
    /\ remote_tags \in [RepoUrls -> RemoteTagLists]
    /\ wall = 0
    /\ resolution = NoResolution

TagCacheNext ==
    \/ \E u \in RepoUrls, probe_ok \in BOOLEAN : ResolveLatestGitTag(u, probe_ok)
    \/ WallTick
    \/ ClockSetBack
    \/ \E u \in RepoUrls, printed \in RemoteTagLists : RemoteChange(u, printed)

InitTagCache == ResolverIdle /\ GenInit /\ StoreInit /\ ConcInit /\ TagsIdle /\ HashIdle /\ FilesInit /\ SweepIdle /\ RollbackInit /\ BuildIdle /\ MetaIdle /\ DedupIdle /\ TagCacheInit /\ ListIdle /\ ConfigIdle /\ BackendIdle /\ IndexIdle /\ LoadIdle

SpecTagCache == InitTagCache /\ [][TagCacheNext]_vars

\* The entry of the last call's URL was made at or before the call and is
\* younger than the TTL.
WithinTtl ==
    /\ resolution.call.before # <<>>
    /\ resolution.call.at >= resolution.call.before[1].timestamp
    /\ resolution.call.at - resolution.call.before[1].timestamp < CacheTtl

\* The entry of the last call's URL is at least as old as the TTL.
TtlElapsed ==
    /\ resolution.call.before # <<>>
    /\ resolution.call.at - resolution.call.before[1].timestamp >= CacheTtl

\* C28 -- Tag cache TTL: a call of resolve_latest_git_tag made less than
\* cache_ttl after the entry of its URL was cached answers from the cached tag
\* list without a probe and leaves the entry alone; a call made once cache_ttl
\* has elapsed probes, and the list a successful probe prints replaces the
\* entry, stamped with the time of the call.
C28_TagCacheTtl ==
    resolution.kind # "none" =>
        /\ WithinTtl =>
              /\ ~resolution.probed
              /\ resolution.tags = resolution.call.before[1].tags
              /\ tag_cache[resolution.call.repo_url] = resolution.call.before
        /\ TtlElapsed =>
              /\ resolution.probed
              /\ resolution.kind = "probed" =>
                    /\ tag_cache[resolution.call.repo_url] =
                          <<[tags |-> resolution.tags, timestamp |-> resolution.call.at]>>
                    /\ tag_cache[resolution.call.repo_url] # resolution.call.before

\* A call exactly cache_ttl after the entry was cached has probed and replaced a
\* list that the remote no longer prints.
C28_Witness ==
    /\ resolution.kind = "probed"
    /\ TtlElapsed
    /\ resolution.call.at - resolution.call.before[1].timestamp = CacheTtl
    /\ resolution.call.before[1].tags # resolution.tags
    /\ tag_cache[resolution.call.repo_url][1].tags = resolution.tags

\* C28 as stated, without the condition on the probe: every call made once
\* cache_ttl has elapsed probes and leaves an entry stamped with the time of
\* the call. Fails when git ls-remote fails or prints no tag: the call returns
\* the error and the expired entry stays.
C28_ExpiredEntryReplaced ==
    (resolution.kind # "none" /\ TtlElapsed) =>
        /\ resolution.probed
        /\ tag_cache[resolution.call.repo_url][1].timestamp = resolution.call.at

\* ---------------------------------------------------------------------------
\* Ext4Store::list_packages (store/mod.rs 366-380, 486-512)
\* ---------------------------------------------------------------------------

\* A file name is a sequence of parts: a literal of len characters, or len
\* characters of a hash starting at from.
Lit(s, n) == [text |-> s, from |-> 0, len |-> n]

\* hex::encode of the 32 bytes of a blake3 hash (util.rs 35-37).
HashHexLen == 64

HashSlice(h, a, b) == [text |-> h, from |-> a, len |-> b - a]

\* format!("{}-{}", hash, name): the directory name of a package.
PackageDirName(h) == <<HashSlice(h, 0, HashHexLen), Lit("-", 1), Lit("name", 4)>>

\* format!("to-delete-{}-{}", hash, timestamp) (mod.rs 389).
TrashDirName(e) ==
    <<Lit("to", 2), Lit("-", 1), Lit("delete", 6), Lit("-", 1),
      HashSlice(e[1], 0, HashHexLen), Lit("-", 1), [text |-> "ts", from |-> e[2], len |-> 10]>>

\* The path of a package below the store root with n bucket levels:
\* packages/H[0:2]/H[2:4]/.../H-N (object_path for n = 2).
BucketedPackagePath(n, h) ==
    <<<<Lit("packages", 8)>>>>
    \o [i \in 1..n |-> <<HashSlice(h, 2 * (i - 1), 2 * i)>>]
    \o <<PackageDirName(h)>>

\* The directories below the store root: .trash and .tmp (Ext4Store::new), the
\* entries of .trash, and every package directory with the directories above it.
StoreTree(n, dirs, tr) ==
    {<<<<Lit(".", 1), Lit("trash", 5)>>>>, <<<<Lit(".", 1), Lit("tmp", 3)>>>>}
    \cup {<<<<Lit(".", 1), Lit("trash", 5)>>, TrashDirName(e)>> : e \in tr}
    \cup UNION {{SubSeq(BucketedPackagePath(n, h), 1, k) :
                    k \in 1..Len(BucketedPackagePath(n, h))} :
                h \in {x \in Hashes : dirs[x] # "absent"}}

\* fs::read_dir(dir): the entries directly below dir (<<>> is the store root).
DirEntries(tree, dir) ==
    {p \in tree : Len(p) = Len(dir) + 1 /\ SubSeq(p, 1, Len(dir)) = dir}

\* str::starts_with(ch) and str::find(ch), 0 for None.
StartsWith(name, ch) == name[1].text = ch

Find(name, ch) ==
    IF \E i \in 1..Len(name) : name[i].text = ch
    THEN CHOOSE i \in 1..Len(name) :
            name[i].text = ch /\ \A j \in 1..(i - 1) : name[j].text # ch
    ELSE 0

\* str::len of the parts of a name.
RECURSIVE StrLen(_)
StrLen(name) == IF name = <<>> THEN 0 ELSE name[1].len + StrLen(Tail(name))

\* OsStr::to_str: None for a name that is not UTF-8. The names the store makes
\* are built from Rust strings.
ToStrIsSome(name) == \A i \in 1..Len(name) : name[i].text # "<not utf-8>"

\* get_package(hash) for the text before the first '-': found when the text is
\* the hash of a package whose path exists.
GetPackageByText(hash) ==
    IF Len(hash) = 1 /\ hash[1].text \in Hashes /\ hash[1].from = 0
       /\ hash[1].len = HashHexLen
    THEN GetPackage(hash[1].text)
    ELSE [found |-> FALSE, hash |-> "", path |-> <<>>, ref_count |-> 0]

\* Vec<StoredPackage> as the number of entries per package hash.
NoPackages == [h \in Hashes |-> 0]

RECURSIVE PushAll(_, _, _)
RECURSIVE CollectPackagesFromDir(_, _)

\* collect_packages_from_dir (mod.rs 486-512). A directory whose name holds a
\* '-' after at least 8 characters is looked up with get_package and pushed when
\* found; the call recurses only into a directory whose name is not UTF-8.
CollectPackagesFromDir(tree, dir) == PushAll(tree, DirEntries(tree, dir), NoPackages)

\* The while loop over the entries of one directory.
PushAll(tree, entries, pkgs) ==
    IF entries = {} THEN pkgs
    ELSE LET path     == CHOOSE p \in entries : TRUE
             name     == path[Len(path)]
             dash_pos == Find(name, "-")
             hash     == SubSeq(name, 1, dash_pos - 1)
             package  == GetPackageByText(hash)
             found    ==
                 IF ToStrIsSome(name)
                 THEN IF dash_pos # 0 /\ StrLen(hash) >= 8 /\ package.found
                      THEN [h \in Hashes |-> IF h = package.hash THEN 1 ELSE 0]
                      ELSE NoPackages
                 ELSE CollectPackagesFromDir(tree, path)
         IN  PushAll(tree, entries \ {path},
                     [h \in Hashes |-> pkgs[h] + found[h]])

RECURSIVE WalkStore(_, _, _)
\* The while loop of list_packages: every directory of the store root whose
\* name does not start with '.' is collected.
WalkStore(tree, entries, pkgs) ==
    IF entries = {} THEN pkgs
    ELSE LET path  == CHOOSE p \in entries : TRUE
             found == IF ~StartsWith(path[Len(path)], ".")
                      THEN CollectPackagesFromDir(tree, path)
                      ELSE NoPackages
         IN  WalkStore(tree, entries \ {path},
                       [h \in Hashes |-> pkgs[h] + found[h]])

\* list_packages (mod.rs 366-380). The call before it and the package
\* directories at the time of the call are kept with the result.
ListPackages ==
    LET tree == StoreTree(levels, pkg_dir, trash) IN
    /\ listed' = [op |-> "list_packages",
                  packages |-> WalkStore(tree, DirEntries(tree, <<>>), NoPackages),
                  after |-> s_last, dirs |-> pkg_dir]
    /\ UNCHANGED <<levels, notList>>

ListInit ==
    /\ levels \in 0..Ext4BucketLevels
    /\ listed = NoListing

ListNext ==
    \/ \E t \in Trees : StorePackage(t)
    \/ \E h \in Hashes : MarkForDeletion(h)
    \/ Tick
    \/ ListPackages

InitList == ResolverIdle /\ GenInit /\ StoreInit /\ ConcInit /\ TagsIdle /\ HashIdle /\ FilesInit /\ SweepIdle /\ RollbackInit /\ BuildIdle /\ MetaIdle /\ DedupIdle /\ TagCacheIdle /\ ListInit /\ ConfigIdle /\ BackendIdle /\ IndexIdle /\ LoadIdle

SpecList == InitList /\ [][ListNext]_vars

\* The last call before the listing was a store_package that returned Ok.
ListedAfterStore ==
    /\ listed.op = "list_packages"
    /\ listed.after.op = "store_package"
    /\ listed.after.kind \in {"ok", "existing"}

\* C29 -- list_packages is complete: a package that store_package has just
\* stored is in the list, no package is in the list twice, and no package
\* whose directory is gone from the store (moved to .trash) is in the list,
\* whatever the number of bucket levels.
C29_ListPackagesComplete ==
    listed.op = "list_packages" =>
        /\ ListedAfterStore => listed.packages[listed.after.hash] = 1
        /\ \A h \in Hashes : listed.packages[h] <= 1
        /\ \A h \in Hashes : listed.packages[h] > 0 => listed.dirs[h] # "absent"

\* What holds: nothing is listed twice, nothing of .trash or .tmp is listed,
\* and with no bucket level between packages/ and the package directories the
\* package just stored is listed.
C29_ListsUnbucketedPackages ==
    listed.op = "list_packages" =>
        /\ (ListedAfterStore /\ levels = 0) => listed.packages[listed.after.hash] = 1
        /\ \A h \in Hashes : listed.packages[h] <= 1
        /\ \A h \in Hashes : listed.packages[h] > 0 => listed.dirs[h] # "absent"

\* With the two bucket levels of Ext4Store a package was stored and a listing
\* made right after it, with a package in .trash at the same time.
C29_Witness ==
    /\ levels = Ext4BucketLevels
    /\ ListedAfterStore
    /\ listed.after.kind = "ok"
    /\ listed.dirs[listed.after.hash] = "complete"
    /\ trash # {}

\* ---------------------------------------------------------------------------
\* NexisConfig::get_packages_ordered (config.rs 319-366)
\* ---------------------------------------------------------------------------

\* packages.iter().find(|p| p.name == pkg_name): the index of the first entry
\* with the name, 0 for None.
FindPackage(pkgs, pkg_name) ==
    IF \E i \in DOMAIN pkgs : pkgs[i].name = pkg_name
    THEN CHOOSE i \in DOMAIN pkgs :
            pkgs[i].name = pkg_name /\ \A j \in 1..(i - 1) : pkgs[j].name # pkg_name
    ELSE 0

RECURSIVE Visit(_, _, _)
RECURSIVE VisitDependencies(_, _, _)

\* fn visit (lines 326-358). st holds visited, visiting, result (the indices of
\* the entries pushed) and err, "ok" while no call has returned Err.
Visit(pkg_name, pkgs, st) ==
    IF st.err # "ok" \/ pkg_name \in st.visited THEN st
    ELSE IF pkg_name \in st.visiting THEN [st EXCEPT !.err = "Circular"]
    ELSE IF FindPackage(pkgs, pkg_name) = 0 THEN [st EXCEPT !.err = "NotFound"]
    ELSE LET i   == FindPackage(pkgs, pkg_name)
             in  == [st EXCEPT !.visiting = @ \cup {pkg_name}]
             out == VisitDependencies(pkgs[i].dependencies, pkgs, in)
         IN  IF out.err # "ok" THEN out
             ELSE [out EXCEPT !.visiting = @ \ {pkg_name},
                              !.visited = @ \cup {pkg_name},
                              !.result = Append(@, i)]

\* for dep in &pkg.dependencies { visit(dep, ...)?; }
VisitDependencies(deps, pkgs, st) ==
    IF deps = <<>> \/ st.err # "ok" THEN st
    ELSE VisitDependencies(Tail(deps), pkgs, Visit(Head(deps), pkgs, st))

\* for pkg in &self.packages { visit(&pkg.name, ...)?; }
RECURSIVE VisitAll(_, _, _)
VisitAll(k, pkgs, st) ==
    IF k > Len(pkgs) \/ st.err # "ok" THEN st
    ELSE VisitAll(k + 1, pkgs, Visit(pkgs[k].name, pkgs, st))

GetPackagesOrderedOf(pkgs) ==
    LET st == VisitAll(1, pkgs, [visited |-> {}, visiting |-> {}, result |-> <<>>,
                                 err |-> "ok"])
    IN  IF st.err = "ok" THEN [kind |-> "ok", list |-> st.result]
        ELSE [kind |-> st.err, list |-> <<>>]

GetPackagesOrdered ==
    /\ ordered.kind = "none"
    /\ ordered' = GetPackagesOrderedOf(cfg_packages)
    /\ UNCHANGED <<cfg_packages, notConfig>>

ConfigInit ==
    /\ cfg_packages \in SeqsUpTo(PackageConfigs, MaxPkgs)
    /\ ordered = NoOrdering

ConfigNext == GetPackagesOrdered

InitConfig == ResolverIdle /\ GenInit /\ StoreInit /\ ConcInit /\ TagsIdle /\ HashIdle /\ FilesInit /\ SweepIdle /\ RollbackInit /\ BuildIdle /\ MetaIdle /\ DedupIdle /\ TagCacheIdle /\ ListIdle /\ ConfigInit /\ BackendIdle /\ IndexIdle /\ LoadIdle

SpecConfig == InitConfig /\ [][ConfigNext]_vars

\* Entry i of the configuration depends on entry j: j has a name that i lists.
DependsOnEntry(pkgs, i, j) == pkgs[j].name \in Range(pkgs[i].dependencies)

RECURSIVE EntryClosure(_, _)
EntryClosure(pkgs, S) ==
    LET S1 == S \cup {j \in DOMAIN pkgs : \E i \in S : DependsOnEntry(pkgs, i, j)}
    IN  IF S1 = S THEN S ELSE EntryClosure(pkgs, S1)

\* The entries that entry i depends on, directly or through others.
EntryDependencies(pkgs, i) ==
    EntryClosure(pkgs, {j \in DOMAIN pkgs : DependsOnEntry(pkgs, i, j)})

ConfigHasCycle(pkgs) == \E i \in DOMAIN pkgs : i \in EntryDependencies(pkgs, i)

ConfigHasMissing(pkgs) ==
    \E i \in DOMAIN pkgs : \E d \in Range(pkgs[i].dependencies) :
        \A j \in DOMAIN pkgs : pkgs[j].name # d

\* Position of entry i in the returned list, 0 when it is not there.
PositionIn(list, i) ==
    IF \E k \in DOMAIN list : list[k] = i
    THEN CHOOSE k \in DOMAIN list : list[k] = i
    ELSE 0

\* The list holds every entry once, each after the entries it depends on.
OrderedList(pkgs, list) ==
    /\ Len(list) = Len(pkgs)
    /\ \A i \in DOMAIN pkgs : \E k \in DOMAIN list : list[k] = i
    /\ \A i \in DOMAIN pkgs : \A j \in EntryDependencies(pkgs, i) :
          PositionIn(list, j) < PositionIn(list, i)

DistinctNames(pkgs) ==
    \A i, j \in DOMAIN pkgs : pkgs[i].name = pkgs[j].name => i = j

\* C31 -- get_packages_ordered returns every configured package exactly once,
\* each after all packages it depends on (transitively), and returns an error
\* and no list when the dependencies hold a cycle or name a package that is
\* not configured.
C31_PackagesOrdered ==
    ordered.kind # "none" =>
        IF ConfigHasCycle(cfg_packages) \/ ConfigHasMissing(cfg_packages)
        THEN ordered.kind \in {"Circular", "NotFound"} /\ ordered.list = <<>>
        ELSE ordered.kind = "ok" /\ OrderedList(cfg_packages, ordered.list)

\* The same for the configurations whose package names are pairwise distinct.
C31_OrderedWhenNamesDistinct ==
    (ordered.kind # "none" /\ DistinctNames(cfg_packages)) =>
        IF ConfigHasCycle(cfg_packages) \/ ConfigHasMissing(cfg_packages)
        THEN ordered.kind \in {"Circular", "NotFound"} /\ ordered.list = <<>>
        ELSE ordered.kind = "ok" /\ OrderedList(cfg_packages, ordered.list)

\* Three packages in a chain, listed dependents first, were ordered.
C31_Witness ==
    /\ ordered.kind = "ok"
    /\ Len(cfg_packages) = 3
    /\ DistinctNames(cfg_packages)
    /\ cfg_packages[1].dependencies = <<"b", "c">>
    /\ cfg_packages[2].dependencies = <<"c">>
    /\ ordered.list = <<3, 2, 1>>

\* ---------------------------------------------------------------------------
\* StorageBackend: MemoryBackend and FilesystemBackend (store/backend.rs)
\* ---------------------------------------------------------------------------

\* The values stored and the prefixes listed.
BackendData == {"x", "y"}

BackendPrefixes == {<<>>, <<"a">>, <<"d">>, <<"d", "/">>, <<"d", "/", "a">>, <<"b">>}

\* str::starts_with(prefix).
StrStartsWith(str, prefix) ==
    Len(prefix) <= Len(str) /\ SubSeq(str, 1, Len(prefix)) = prefix

\* The keys that hold data.
StoredKeys(data) == {k \in BackendKeys : data[k] # <<>>}

\* MemoryBackend::put, delete and list (lines 262-294).
MemPut(data, path, bytes) == [data EXCEPT ![path] = <<bytes>>]

MemDelete(data, path) == [data EXCEPT ![path] = <<>>]

MemList(data, prefix) ==
    SortByFileName({k \in StoredKeys(data) : StrStartsWith(k, prefix)})

\* The components of root_path.join(path) below root_path.
Components(path) == SelectSeq(SplitOn(path, "/"), LAMBDA c : c # <<>>)

TrailingSlash(path) == path # <<>> /\ path[Len(path)] = "/"

ProperPrefixes(p) == {SubSeq(p, 1, n) : n \in 1..(Len(p) - 1)}

IsBelow(p, dir) == Len(dir) <= Len(p) /\ SubSeq(p, 1, Len(dir)) = dir

FsIsFile(files, p) == \E k \in StoredKeys(files) : Components(k) = p

FsIsDir(dirs, p) == p = <<>> \/ p \in dirs

\* Path::exists of root_path.join(path): a path with a trailing slash names a
\* directory only.
FsExists(files, dirs, path) ==
    \/ FsIsDir(dirs, Components(path))
    \/ FsIsFile(files, Components(path)) /\ ~TrailingSlash(path)

\* FilesystemBackend::put (lines 83-98): the parent directories are made, then
\* the file is created; both fail where a file or a directory is in the way.
FsPut(files, dirs, path, bytes) ==
    LET p == Components(path) IN
    IF (\E q \in ProperPrefixes(p) : FsIsFile(files, q)) \/ FsIsDir(dirs, p)
    THEN [ok |-> FALSE, files |-> files, dirs |-> dirs]
    ELSE [ok |-> TRUE, files |-> [files EXCEPT ![path] = <<bytes>>],
          dirs |-> dirs \cup ProperPrefixes(p)]

\* FilesystemBackend::delete (lines 116-131): a directory goes with all below it.
FsDelete(files, dirs, path) ==
    LET p == Components(path) IN
    IF ~FsExists(files, dirs, path) THEN [ok |-> TRUE, files |-> files, dirs |-> dirs]
    ELSE IF FsIsDir(dirs, p)
    THEN [ok |-> TRUE,
          files |-> [k \in BackendKeys |->
                        IF IsBelow(Components(k), p) THEN <<>> ELSE files[k]],
          dirs |-> {d \in dirs : ~IsBelow(d, p)}]
    ELSE [ok |-> TRUE, files |-> [files EXCEPT ![path] = <<>>], dirs |-> dirs]

RECURSIVE CollectFiles(_, _, _, _)
\* collect_files (lines 194-215): every file below dir whose path relative to
\* root_path starts with prefix; directories are entered whatever their name.
CollectFiles(files, dirs, dir, prefix) ==
    {k \in StoredKeys(files) :
        /\ Len(Components(k)) = Len(dir) + 1
        /\ IsBelow(Components(k), dir)
        /\ StrStartsWith(JoinPath(Components(k)), prefix)}
    \cup UNION {CollectFiles(files, dirs, d, prefix) :
                   d \in {e \in dirs : Len(e) = Len(dir) + 1 /\ IsBelow(e, dir)}}

\* FilesystemBackend::list (lines 138-149): nothing when root_path.join(prefix)
\* does not exist, an error when it is a file (read_dir fails), else the files
\* collected below it, sorted.
FsList(files, dirs, prefix) ==
    IF ~FsExists(files, dirs, prefix) THEN [ok |-> TRUE, keys |-> <<>>]
    ELSE IF ~FsIsDir(dirs, Components(prefix)) THEN [ok |-> FALSE, keys |-> <<>>]
    ELSE [ok |-> TRUE,
          keys |-> SortByFileName(CollectFiles(files, dirs, Components(prefix), prefix))]

\* put(path, data) on both backends.
BackendPut(path, bytes) ==
    LET r == FsPut(fs_files, fs_dirs, path, bytes) IN
    /\ mem_data' = MemPut(mem_data, path, bytes)
    /\ fs_files' = r.files
    /\ fs_dirs' = r.dirs
    /\ b_last' = [op |-> "put", path |-> path, fs_ok |-> r.ok]
    /\ UNCHANGED notBackend

\* delete(path) on both backends.
BackendDelete(path) ==
    LET r == FsDelete(fs_files, fs_dirs, path) IN
    /\ mem_data' = MemDelete(mem_data, path)
    /\ fs_files' = r.files
    /\ fs_dirs' = r.dirs
    /\ b_last' = [op |-> "delete", path |-> path, fs_ok |-> r.ok]
    /\ UNCHANGED notBackend

\* list(prefix) on both backends.
BackendList(prefix) ==
    /\ b_last' = [op |-> "list", path |-> prefix,
                  fs_ok |-> FsList(fs_files, fs_dirs, prefix).ok,
                  fs_keys |-> FsList(fs_files, fs_dirs, prefix).keys,
                  mem_keys |-> MemList(mem_data, prefix)]
    /\ UNCHANGED <<mem_data, fs_files, fs_dirs, notBackend>>

BackendNext ==
    \/ \E path \in BackendKeys, bytes \in BackendData : BackendPut(path, bytes)
    \/ \E path \in BackendKeys : BackendDelete(path)
    \/ \E prefix \in BackendPrefixes : BackendList(prefix)

InitBackend == ResolverIdle /\ GenInit /\ StoreInit /\ ConcInit /\ TagsIdle /\ HashIdle /\ FilesInit /\ SweepIdle /\ RollbackInit /\ BuildIdle /\ MetaIdle /\ DedupIdle /\ TagCacheIdle /\ ListIdle /\ ConfigIdle /\ BackendIdle /\ IndexIdle /\ LoadIdle

SpecBackend == InitBackend /\ [][BackendNext]_vars

\* The stored keys that start with prefix, ascending.
KeysWithPrefix(data, prefix) ==
    SortByFileName({k \in StoredKeys(data) : StrStartsWith(k, prefix)})

\* C32 -- Backend list by prefix: on MemoryBackend and on FilesystemBackend,
\* list(prefix) returns exactly the stored keys that start with prefix, for
\* every prefix string, in ascending order, and both backends return the same
\* list after the same puts and deletes.
C32_ListByPrefix ==
    b_last.op = "list" =>
        /\ b_last.mem_keys = KeysWithPrefix(mem_data, b_last.path)
        /\ b_last.fs_ok
        /\ b_last.fs_keys = KeysWithPrefix(fs_files, b_last.path)
        /\ b_last.fs_keys = b_last.mem_keys

\* What holds: MemoryBackend lists by string prefix; FilesystemBackend returns
\* stored keys that start with prefix only, and all of them when the prefix is
\* empty or the name of a directory followed by '/'.
C32_DirectoryPrefixes ==
    b_last.op = "list" =>
        /\ b_last.mem_keys = KeysWithPrefix(mem_data, b_last.path)
        /\ Range(b_last.fs_keys) \subseteq Range(KeysWithPrefix(fs_files, b_last.path))
        /\ (b_last.path = <<>> \/ TrailingSlash(b_last.path)) =>
              /\ b_last.fs_ok
              /\ b_last.fs_keys = KeysWithPrefix(fs_files, b_last.path)

\* A prefix that is no directory name was listed while both backends held a
\* key starting with it.
C32_Witness ==
    /\ b_last.op = "list"
    /\ b_last.path = <<"a">>
    /\ mem_data[<<"a", "b">>] # <<>>
    /\ fs_files[<<"a", "b">>] # <<>>
    /\ mem_data[<<"a">>] = <<>>
    /\ mem_data = fs_files

\* ---------------------------------------------------------------------------
\* MetadataStore with its path index and statistics (meta/mod.rs 139-244,
\* 300-429, 529-551)
\* ---------------------------------------------------------------------------

\* Largest number of mutating calls on the store.
MaxIndexOps == 3

\* max_versions: Some(10) (line 86).
MaxVersions == 10

\* The integers of the statistics are u64; the model keeps 30 bits of them.
U64Modulus == 1073741824

\* The size and checksum of a file's content.
MetaContents ==
    {[size |-> 1, checksum |-> "c1"], [size |-> 2, checksum |-> "c2"]}

\* FileMetadata: id, path, size and checksum (the fields the store looks at).
FileMetadatas ==
    {[id |-> id, path |-> p, size |-> c.size, checksum |-> c.checksum] :
        id \in FileIds, p \in MetaPaths, c \in MetaContents}

\* MetadataConfig::default() and a configuration with everything switched off.
MetadataConfigs ==
    {DefaultMetadataConfig,
     [enable_versioning |-> FALSE, enable_search_index |-> FALSE,
      compress_metadata |-> FALSE]}

VersionInfo(metadata) == [size |-> metadata.size, checksum |-> metadata.checksum]

\* (x as i64 + y) as u64.
AsU64(v) == v % U64Modulus

\* update_stats (lines 414-429): total_files and total_size go up or down by
\* the file and its size.
UpdateStats(stats, metadata, add) ==
    LET multiplier == IF add THEN 1 ELSE -1 IN
    [total_files |-> AsU64(stats.total_files + multiplier),
     total_size  |-> AsU64(stats.total_size + metadata.size * multiplier)]

\* add_file (lines 139-172). Err only when the path belongs to another id; the
\* id itself may be present already.
AddFileOf(c, cfg, metadata) ==
    IF /\ c.path_to_id[metadata.path] # <<>>
       /\ c.path_to_id[metadata.path][1] # metadata.id
    THEN [ok |-> FALSE, cache |-> c]
    ELSE [ok |-> TRUE,
          cache |->
            [c EXCEPT !.path_to_id[metadata.path] = <<metadata.id>>,
                      !.files[metadata.id] = <<metadata>>,
                      !.versions[metadata.id] =
                          IF cfg.enable_versioning THEN <<<<VersionInfo(metadata)>>>> ELSE @,
                      !.stats = UpdateStats(@, metadata, TRUE),
                      !.dirty = TRUE]]

\* add_version (lines 391-411): push, then drop the oldest beyond max_versions.
AddVersion(versions, file_id, metadata) ==
    LET old    == IF versions[file_id] = <<>> THEN <<>> ELSE versions[file_id][1]
        pushed == Append(old, VersionInfo(metadata))
        kept   == IF Len(pushed) > MaxVersions
                  THEN SubSeq(pushed, Len(pushed) - MaxVersions + 1, Len(pushed))
                  ELSE pushed
    IN  [versions EXCEPT ![file_id] = <<kept>>]

\* update_file (lines 194-221). The new path is mapped to metadata.id without
\* a look at what it mapped to before.
UpdateFileOf(c, cfg, file_id, metadata) ==
    IF c.files[file_id] = <<>> THEN [ok |-> FALSE, cache |-> c]
    ELSE LET old_metadata == c.files[file_id][1] IN
         [ok |-> TRUE,
          cache |->
            [c EXCEPT !.path_to_id =
                          IF old_metadata.path # metadata.path
                          THEN [[@ EXCEPT ![old_metadata.path] = <<>>]
                                   EXCEPT ![metadata.path] = <<metadata.id>>]
                          ELSE @,
                      !.versions =
                          IF cfg.enable_versioning
                             /\ old_metadata.checksum # metadata.checksum
                          THEN AddVersion(@, file_id, metadata) ELSE @,
                      !.files[file_id] = <<metadata>>,
                      !.stats = UpdateStats(UpdateStats(@, old_metadata, FALSE),
                                            metadata, TRUE),
                      !.dirty = TRUE]]

\* delete_file (lines 224-244).
DeleteFileOf(c, file_id) ==
    IF c.files[file_id] = <<>> THEN [ok |-> FALSE, cache |-> c]
    ELSE LET metadata == c.files[file_id][1] IN
         [ok |-> TRUE,
          cache |->
            [c EXCEPT !.files[file_id] = <<>>,
                      !.path_to_id[metadata.path] = <<>>,
                      !.versions[file_id] = <<>>,
                      !.search_index[file_id] = <<>>,
                      !.stats = UpdateStats(@, metadata, FALSE),
                      !.dirty = TRUE]]

\* update_search_index (lines 302-311).
UpdateSearchIndexOf(c, cfg, file_id) ==
    IF ~cfg.enable_search_index THEN c
    ELSE [c EXCEPT !.search_index[file_id] = <<"index">>, !.dirty = TRUE]

\* serialize_data and deserialize_data (lines 529-551): bincode, gzipped when
\* compress_metadata is set; reading with the other setting fails.
SerializeData(cfg, value) == [gz |-> cfg.compress_metadata, value |-> value]

DeserializeData(cfg, bytes) ==
    IF bytes.gz = cfg.compress_metadata
    THEN [ok |-> TRUE, value |-> bytes.value]
    ELSE [ok |-> FALSE, value |-> <<>>]

\* The keys persist writes, in its order.
PersistKeys(cfg) ==
    <<"files">>
    \o (IF cfg.enable_versioning THEN <<"versions">> ELSE <<>>)
    \o (IF cfg.enable_search_index THEN <<"search_index">> ELSE <<>>)
    \o <<"stats", "config">>

PersistValue(c, cfg, key) == IF key = "config" THEN cfg ELSE c[key]

RECURSIVE PutAll(_, _, _, _)
PutAll(b, c, cfg, keys) ==
    IF keys = <<>> THEN b
    ELSE PutAll([b EXCEPT ![Head(keys)] =
                    <<SerializeData(cfg, PersistValue(c, cfg, Head(keys)))>>],
                c, cfg, Tail(keys))

\* persist (lines 320-349): nothing is done unless dirty; else the keys are put
\* one by one, and the put numbered fail_at (0: none) fails and ends the call.
PersistOf(c, cfg, b, fail_at) ==
    LET keys == PersistKeys(cfg)
        done == IF fail_at = 0 THEN Len(keys) ELSE fail_at - 1
    IN  IF ~c.dirty THEN [ok |-> TRUE, puts |-> 0, backend |-> b, cache |-> c]
        ELSE [ok |-> fail_at = 0, puts |-> done,
              backend |-> PutAll(b, c, cfg, SubSeq(keys, 1, done)),
              cache |-> IF fail_at = 0 THEN [c EXCEPT !.dirty = FALSE] ELSE c]

RECURSIVE RebuildPathIndex(_, _, _)
\* for (id, metadata) in &cache.files { path_to_id.insert(path, id) }, in the
\* order the HashMap iterates.
RebuildPathIndex(files, order, path_to_id) ==
    IF order = <<>> THEN path_to_id
    ELSE RebuildPathIndex(files, Tail(order),
            IF files[Head(order)] = <<>> THEN path_to_id
            ELSE [path_to_id EXCEPT ![files[Head(order)][1].path] = <<Head(order)>>])

\* load_metadata (lines 352-388) into a MetadataCache::default().
LoadMetadataOf(cfg, b, order) ==
    LET get(key) == DeserializeData(cfg, b[key][1])
        has_files == b.files # <<>>
        has_versions == cfg.enable_versioning /\ b.versions # <<>>
        has_search == cfg.enable_search_index /\ b.search_index # <<>>
        has_stats == b.stats # <<>>
        ok == /\ has_files => get("files").ok
              /\ has_versions => get("versions").ok
              /\ has_search => get("search_index").ok
              /\ has_stats => get("stats").ok
        files == IF has_files THEN get("files").value ELSE NewMetadataCache.files
    IN  [ok |-> ok,
         cache |->
            IF ~ok THEN NewMetadataCache
            ELSE [files        |-> files,
                  path_to_id   |-> RebuildPathIndex(files, order, NewMetadataCache.path_to_id),
                  versions     |-> IF has_versions THEN get("versions").value
                                   ELSE NewMetadataCache.versions,
                  search_index |-> IF has_search THEN get("search_index").value
                                   ELSE NewMetadataCache.search_index,
                  stats        |-> IF has_stats THEN get("stats").value
                                   ELSE NewMetadataCache.stats,
                  dirty        |-> FALSE]]

MdAddFile(metadata) ==
    /\ md_ops < MaxIndexOps
    /\ md_cache' = AddFileOf(md_cache, md_config, metadata).cache
    /\ md_last' = [op |-> "add_file", ok |-> AddFileOf(md_cache, md_config, metadata).ok,
                   metadata |-> metadata]
    /\ md_ops' = md_ops + 1
    /\ UNCHANGED <<md_config, md_backend, notIndex>>

MdUpdateFile(file_id, metadata) ==
    /\ md_ops < MaxIndexOps
    /\ md_cache' = UpdateFileOf(md_cache, md_config, file_id, metadata).cache
    /\ md_last' = [op |-> "update_file",
                   ok |-> UpdateFileOf(md_cache, md_config, file_id, metadata).ok,
                   metadata |-> metadata]
    /\ md_ops' = md_ops + 1
    /\ UNCHANGED <<md_config, md_backend, notIndex>>

MdDeleteFile(file_id) ==
    /\ md_ops < MaxIndexOps
    /\ md_cache' = DeleteFileOf(md_cache, file_id).cache
    /\ md_last' = [op |-> "delete_file", ok |-> DeleteFileOf(md_cache, file_id).ok]
    /\ md_ops' = md_ops + 1
    /\ UNCHANGED <<md_config, md_backend, notIndex>>

MdUpdateSearchIndex(file_id) ==
    /\ md_ops < MaxIndexOps
    /\ md_cache' = UpdateSearchIndexOf(md_cache, md_config, file_id)
    /\ md_last' = [op |-> "update_search_index", ok |-> TRUE]
    /\ md_ops' = md_ops + 1
    /\ UNCHANGED <<md_config, md_backend, notIndex>>

\* persist(); the call is kept with the cache it persisted and the number of
\* puts it made.
MdPersist(fail_at) ==
    LET r == PersistOf(md_cache, md_config, md_backend, fail_at) IN
    /\ fail_at <= Len(PersistKeys(md_config))
    /\ md_last.op # "persist"
    /\ md_cache' = r.cache
    /\ md_backend' = r.backend
    /\ md_last' = [op |-> "persist", ok |-> r.ok, puts |-> r.puts,
                   was_dirty |-> md_cache.dirty, cache |-> r.cache]
    /\ UNCHANGED <<md_config, md_ops, notIndex>>

\* MetadataStore::new(backend, config) on the same backend, right after a
\* persist that returned Ok: the second store is kept next to the first.
MdOpenSecond(order) ==
    /\ md_last.op = "persist"
    /\ md_last.ok
    /\ md_last' = [op |-> "new", ok |-> LoadMetadataOf(md_config, md_backend, order).ok,
                   second |-> LoadMetadataOf(md_config, md_backend, order).cache,
                   first |-> md_cache]
    /\ UNCHANGED <<md_config, md_cache, md_backend, md_ops, notIndex>>

IndexInit ==
    /\ md_config \in MetadataConfigs
    /\ md_cache = NewMetadataCache
    /\ md_backend = NoMetaObjects
    /\ md_ops = 0
    /\ md_last = [op |-> "none"]

IndexNext ==
    \/ \E metadata \in FileMetadatas : MdAddFile(metadata)
    \/ \E file_id \in FileIds, metadata \in FileMetadatas : MdUpdateFile(file_id, metadata)
    \/ \E file_id \in FileIds : MdDeleteFile(file_id)
    \/ \E file_id \in FileIds : MdUpdateSearchIndex(file_id)
    \/ \E fail_at \in 0..5 : MdPersist(fail_at)
    \/ \E order \in Perms(FileIds) : MdOpenSecond(order)

InitIndex == ResolverIdle /\ GenInit /\ StoreInit /\ ConcInit /\ TagsIdle /\ HashIdle /\ FilesInit /\ SweepIdle /\ RollbackInit /\ BuildIdle /\ MetaIdle /\ DedupIdle /\ TagCacheIdle /\ ListIdle /\ ConfigIdle /\ BackendIdle /\ IndexInit /\ LoadIdle

SpecIndex == InitIndex /\ [][IndexNext]_vars

\* The ids files holds, and the sum of the sizes of its entries.
StoredIds(c) == {id \in FileIds : c.files[id] # <<>>}

RECURSIVE SumSizes(_, _)
SumSizes(c, ids) ==
    IF ids = {} THEN 0
    ELSE LET id == CHOOSE x \in ids : TRUE
         IN  c.files[id][1].size + SumSizes(c, ids \ {id})

\* path_to_id[p] = id iff files holds id with that path.
PathIndexConsistent(c) ==
    \A p \in MetaPaths, id \in FileIds :
        (c.path_to_id[p] = <<id>>) <=> (c.files[id] # <<>> /\ c.files[id][1].path = p)

\* C34 -- path index consistency: after any sequence of add_file, update_file
\* and delete_file, path_to_id[p] = id iff files holds id with files[id].path
\* = p; so no path maps to a missing or different file and no two files share
\* a path.
C34_PathIndexConsistent == PathIndexConsistent(md_cache)

\* What does hold: right after a successful add_file the path of the metadata
\* maps to its id and files holds the metadata under that id.
C34_PathOfLastCallIndexed ==
    (md_last.op = "add_file" /\ md_last.ok)
        => /\ md_cache.path_to_id[md_last.metadata.path] = <<md_last.metadata.id>>
           /\ md_cache.files[md_last.metadata.id] = <<md_last.metadata>>

\* add_file has returned Ok for an id that was stored under another path, and
\* the old path still maps to the id.
C34_Witness ==
    /\ md_last.op = "add_file"
    /\ md_last.ok
    /\ \E p \in MetaPaths :
        /\ p # md_last.metadata.path
        /\ md_cache.path_to_id[p] = <<md_last.metadata.id>>

\* C35 -- statistics invariant: in every reachable state total_files is the
\* number of entries of files and total_size the sum of their sizes, and
\* neither wraps below zero, add_file for a present id included.
C35_StatsMatchFiles ==
    /\ md_cache.stats.total_files = Cardinality(StoredIds(md_cache))
    /\ md_cache.stats.total_size = SumSizes(md_cache, StoredIds(md_cache))

\* What does hold: the totals are never below the true values, so they do not
\* wrap.
C35_StatsNeverBelow ==
    /\ md_cache.stats.total_files >= Cardinality(StoredIds(md_cache))
    /\ md_cache.stats.total_files <= MaxIndexOps
    /\ md_cache.stats.total_size >= SumSizes(md_cache, StoredIds(md_cache))
    /\ md_cache.stats.total_size <= 2 * MaxIndexOps

\* add_file has returned Ok and total_files counts more files than there are.
C35_Witness ==
    /\ md_last.op = "add_file"
    /\ md_last.ok
    /\ md_cache.stats.total_files > Cardinality(StoredIds(md_cache))

\* C33 -- persistence round trip: after persist() returns Ok a new store on
\* the same backend and configuration holds exactly the files, path index,
\* version histories and statistics of the persisting store; persist() on a
\* store without unpersisted change writes nothing.
C33_PersistRoundTrip ==
    /\ md_last.op = "new" =>
        /\ md_last.ok
        /\ md_last.second.files = md_last.first.files
        /\ md_last.second.path_to_id = md_last.first.path_to_id
        /\ md_last.second.versions = md_last.first.versions
        /\ md_last.second.stats = md_last.first.stats
    /\ (md_last.op = "persist" /\ ~md_last.was_dirty) => md_last.puts = 0

\* What does hold: files, version histories and statistics come back as they
\* were, the path index too when it was consistent in the persisting store,
\* and a persist of a clean store puts nothing.
C33_RoundTripOfConsistentStore ==
    /\ md_last.op = "new" =>
        /\ md_last.ok
        /\ md_last.second.files = md_last.first.files
        /\ md_last.second.versions = md_last.first.versions
        /\ md_last.second.stats = md_last.first.stats
        /\ PathIndexConsistent(md_last.first)
            => md_last.second.path_to_id = md_last.first.path_to_id
    /\ (md_last.op = "persist" /\ ~md_last.was_dirty) =>
        (md_last.puts = 0 /\ md_last.ok)

\* A store with a file has been persisted and opened again, and the path index
\* of the second store is not the one of the first.
C33_Witness ==
    /\ md_last.op = "new"
    /\ md_last.ok
    /\ StoredIds(md_last.first) # {}
    /\ md_last.second.path_to_id # md_last.first.path_to_id

\* ---------------------------------------------------------------------------
\* Activation after an interrupted activation (manager.rs 27-37)
\* ---------------------------------------------------------------------------

\* C36 -- activation stays possible after an interruption: when an earlier
\* switch_generation was interrupted between creating .current.tmp and the
\* rename, a later switch_generation(id) for an existing generation still
\* succeeds and makes id current; no interruption makes all later activations
\* fail.
C36_ActivationStaysPossible ==
    /\ ~(g_switch.phase = "failed" /\ g_switch.existed)
    /\ g_switch.phase = "renamed" => current = g_switch.new

\* What does hold: switch_generation fails at the symlink only when
\* .current.tmp is in the way, and a call that gets to the end of the rename
\* has made its generation current.
C36_FailsOnlyOnLeftoverLink ==
    /\ g_switch.phase = "failed" => temp_link # None
    /\ g_switch.phase = "renamed" => current = g_switch.new

\* switch_generation for an existing generation has failed on the link an
\* interrupted activation left, and current is not that generation.
C36_Witness ==
    /\ g_switch.phase = "failed"
    /\ g_switch.existed
    /\ g_switch.new \subseteq gen_dirs
    /\ temp_link # None
    /\ current # g_switch.new

\* ---------------------------------------------------------------------------
\* Package hashes of two trees that differ in a file (store/mod.rs 583-636,
\* ingest.rs 223-235, util.rs 91-137)
\* ---------------------------------------------------------------------------

\* rename(root/from_dir/name, root/to_dir/name): a file goes to the other
\* subdirectory under its own name; the directories get a new modification time.
MoveFile(from_dir, to_dir, name) ==
    /\ Len(h_calls) = 1
    /\ dir_mtime = 0
    /\ from_dir # to_dir
    /\ dir_tree[from_dir].kind = "dir"
    /\ dir_tree[to_dir].kind = "dir"
    /\ dir_tree[from_dir].children[name].kind = "file"
    /\ dir_tree[to_dir].children[name].kind = "absent"
    /\ dir_tree' = [dir_tree EXCEPT
                       ![from_dir].children[name] = AbsentLeaf,
                       ![to_dir].children[name] = dir_tree[from_dir].children[name]]
    /\ dir_tree' \in DirTrees
    /\ dir_mtime' = 1
    /\ UNCHANGED <<h_calls, notHash>>

\* A file directly below the root is written again with other content.
RewriteFile(name, content) ==
    /\ Len(h_calls) = 1
    /\ dir_mtime = 0
    /\ dir_tree[name].kind = "file"
    /\ dir_tree[name].content # content
    /\ dir_tree' = [dir_tree EXCEPT ![name].content = content]
    /\ dir_mtime' = 1
    /\ UNCHANGED <<h_calls, notHash>>

\* A tree is hashed, a file of it is moved or rewritten, and it is hashed again.
MovedNext ==
    \/ HashDirectory
    \/ CalculateDirectoryHash
    \/ IngestSourceTree
    \/ \E from_dir, to_dir \in TopNames, name \in ChildNames : MoveFile(from_dir, to_dir, name)
    \/ \E name \in TopNames, content \in Contents : RewriteFile(name, content)

SpecMoved == InitHash /\ [][MovedNext]_vars

\* Calls of one function on trees whose files differ in a path or a content.
CallsOnDistinctTrees(fns) ==
    {p \in (DOMAIN h_calls) \X (DOMAIN h_calls) :
        /\ h_calls[p[1]].fn = h_calls[p[2]].fn
        /\ h_calls[p[1]].fn \in fns
        /\ h_calls[p[1]].files # h_calls[p[2]].files}

\* C37 -- distinct trees get distinct hash input: two source trees that differ
\* in the root-relative path or the content of a file feed different bytes to
\* the package hasher of Ext4Store::calculate_hash and of
\* PackageIngestor::compute_package_hash, so that moving a file to another
\* subdirectory changes the package hash.
C37_DistinctTreesDistinctInput ==
    \A p \in CallsOnDistinctTrees({"calculate_hash", "ingest_package"}) :
        h_calls[p[1]].digest # h_calls[p[2]].digest

\* What does hold: compute_package_hash and util::hash_directory are fed
\* different bytes for such trees.
C37_IngestHashTellsTreesApart ==
    \A p \in CallsOnDistinctTrees({"ingest_package", "hash_directory"}) :
        h_calls[p[1]].digest # h_calls[p[2]].digest

\* calculate_hash has run before and after a file went from one subdirectory
\* to the other, and has returned the same hash.
C37_Witness ==
    /\ Len(h_calls) = 2
    /\ dir_mtime = 1
    /\ h_calls[1].fn = "calculate_hash" /\ h_calls[2].fn = "calculate_hash"
    /\ \E c \in Contents :
          /\ <<<<NameA, NameF>>, c>> \in h_calls[1].files
          /\ <<<<NameB, NameF>>, c>> \in h_calls[2].files
          /\ <<<<NameA, NameF>>, c>> \notin h_calls[2].files
    /\ h_calls[1].digest = h_calls[2].digest

\* ---------------------------------------------------------------------------
\* Ingests and removes of one package (ingest.rs 73-89, 132-142, 264-291)
\* ---------------------------------------------------------------------------

\* What remove_package returns: Ok(true) in the branch of the last reference
\* when the package has a recorded path, Ok(false) otherwise.
RemovePackageReturns(h) == GetRefcount(h) <= 1 /\ h \in meta_pkg

\* C38 -- ingest and remove are balanced: of k removes after k ingests of one
\* content the first k-1 each lower the refcount by one and return false, the
\* k-th returns true and marks the package, and the recorded refcount is then
\* 0; remove_package on a hash without package record returns false and
\* changes nothing.
C38_IngestRemoveBalanced ==
    [][\A h \in Hashes :
          (refcount[h] <= MaxRef /\ RemovePackage(h)) =>
              IF h \notin meta_pkg
              THEN ~RemovePackageReturns(h) /\ UNCHANGED svars
              ELSE IF GetRefcount(h) > 1
              THEN /\ ~RemovePackageReturns(h)
                   /\ refcount'[h] = GetRefcount(h) - 1
                   /\ marked' = marked
              ELSE /\ RemovePackageReturns(h)
                   /\ h \in marked'
                   /\ refcount'[h] = 0]_vars

\* What does hold: a refcount above 1 is lowered by one and false returned; at
\* 1 or 0 a recorded package is marked and true returned, with the refcount
\* left as it was, and without a record nothing changes and false is returned.
C38_RemoveLowersOrMarks ==
    [][\A h \in Hashes :
          (refcount[h] <= MaxRef /\ RemovePackage(h)) =>
              IF GetRefcount(h) > 1
              THEN /\ ~RemovePackageReturns(h)
                   /\ refcount'[h] = GetRefcount(h) - 1
                   /\ marked' = marked
              ELSE IF h \notin meta_pkg
              THEN ~RemovePackageReturns(h) /\ UNCHANGED svars
              ELSE /\ RemovePackageReturns(h)
                   /\ h \in marked'
                   /\ refcount'[h] = GetRefcount(h)]_vars

\* A package has been ingested and removed, is marked for deletion, and its
\* recorded refcount is 1.
C38_Witness ==
    \E h \in meta_pkg :
        /\ h \in marked
        /\ pkg_dir[h] = "complete"
        /\ GetRefcount(h) = 1

\* ---------------------------------------------------------------------------
\* NexisConfig::load_from and process_includes (config.rs 180-217)
\* ---------------------------------------------------------------------------

\* The number of nested load_from calls the thread's stack has room for.
MaxLoadDepth == 4

\* Longest include list of a file.
MaxIncludes == 2

\* A file is missing, is not valid TOML, or parses with its include list.
ConfigFiles ==
    {[kind |-> k, includes |-> <<>>] : k \in {"missing", "bad_toml"}}
    \cup {[kind |-> "ok", includes |-> inc] : inc \in SeqsUpTo(ConfigPaths, MaxIncludes)}

\* The call in progress and the include it has come to.
TopFrame == ld_stack[Len(ld_stack)]

AtInclude ==
    /\ ld_stack # <<>>
    /\ TopFrame.next <= Len(ld_files[TopFrame.path].includes)

NextInclude == ld_files[TopFrame.path].includes[TopFrame.next]

\* load_from(path) is called (lines 180-190): read_to_string and toml::from_str
\* succeed, or the call returns their error.
LoadFrom(path) ==
    /\ ld_result.kind = "none"
    /\ IF ld_files[path].kind = "ok"
       THEN /\ ld_stack' = <<[path |-> path, next |-> 1, merged |-> <<path>>]>>
            /\ ld_result' = [kind |-> "running", merged |-> <<>>, failed |-> <<>>]
       ELSE /\ ld_result' = [kind |-> "err", merged |-> <<>>, failed |-> <<path>>]
            /\ UNCHANGED ld_stack
    /\ UNCHANGED <<ld_files, notLoad>>

\* process_includes, lines 207-210: the include does not exist; a warning, and
\* the loop goes on.
IncludeNotFound ==
    /\ AtInclude
    /\ ld_files[NextInclude].kind = "missing"
    /\ ld_stack' = [ld_stack EXCEPT ![Len(ld_stack)].next = @ + 1]
    /\ UNCHANGED <<ld_files, ld_result, notLoad>>

\* Lines 212 and 193: load_from of the include returns an error, and every `?`
\* on the way out hands it on.
IncludeFails ==
    /\ AtInclude
    /\ ld_files[NextInclude].kind = "bad_toml"
    /\ ld_stack' = <<>>
    /\ ld_result' = [kind |-> "err", merged |-> <<>>, failed |-> <<NextInclude>>]
    /\ UNCHANGED <<ld_files, notLoad>>

\* Line 212: load_from(&full_path) is entered for an include that exists.
\* Nothing remembers which files are being loaded.
IncludeLoad ==
    /\ AtInclude
    /\ ld_files[NextInclude].kind = "ok"
    /\ Len(ld_stack) < MaxLoadDepth
    /\ ld_stack' = Append(ld_stack, [path |-> NextInclude, next |-> 1,
                                     merged |-> <<NextInclude>>])
    /\ UNCHANGED <<ld_files, ld_result, notLoad>>

\* The same call with no stack left: the process is aborted, load_from
\* returns nothing.
StackExhausted ==
    /\ AtInclude
    /\ ld_files[NextInclude].kind = "ok"
    /\ Len(ld_stack) = MaxLoadDepth
    /\ ld_stack' = <<>>
    /\ ld_result' = [kind |-> "aborted", merged |-> <<>>, failed |-> <<>>]
    /\ UNCHANGED <<ld_files, notLoad>>

\* Lines 193 and 213: the loop is over and load_from returns Ok(config); the
\* caller merges it and goes to its next include.
LoadReturns ==
    /\ ld_stack # <<>>
    /\ ~AtInclude
    /\ IF Len(ld_stack) = 1
       THEN /\ ld_result' = [kind |-> "ok", merged |-> TopFrame.merged, failed |-> <<>>]
            /\ ld_stack' = <<>>
       ELSE /\ ld_stack' =
                [SubSeq(ld_stack, 1, Len(ld_stack) - 1)
                    EXCEPT ![Len(ld_stack) - 1] =
                        [@ EXCEPT !.next = @ + 1,
                                  !.merged = @ \o TopFrame.merged]]
            /\ UNCHANGED ld_result
    /\ UNCHANGED <<ld_files, notLoad>>

LoadInit ==
    /\ ld_files \in [ConfigPaths -> ConfigFiles]
    /\ ld_stack = <<>>
    /\ ld_result = NoLoad

LoadNext ==
    \/ \E path \in ConfigPaths : LoadFrom(path)
    \/ IncludeNotFound
    \/ IncludeFails
    \/ IncludeLoad
    \/ StackExhausted
    \/ LoadReturns

InitLoad == ResolverIdle /\ GenInit /\ StoreInit /\ ConcInit /\ TagsIdle /\ HashIdle /\ FilesInit /\ SweepIdle /\ RollbackInit /\ BuildIdle /\ MetaIdle /\ DedupIdle /\ TagCacheIdle /\ ListIdle /\ ConfigIdle /\ BackendIdle /\ IndexIdle /\ LoadInit

\* The call runs on: a load_from in progress takes its next step.
SpecLoad == InitLoad /\ [][LoadNext]_vars /\ WF_vars(LoadNext)

\* p includes q, both files being there and valid.
Includes(p, q) ==
    /\ ld_files[p].kind = "ok"
    /\ ld_files[q].kind = "ok"
    /\ \E i \in DOMAIN ld_files[p].includes : ld_files[p].includes[i] = q

RECURSIVE IncludeClosure(_)
IncludeClosure(S) ==
    LET more == S \cup {q \in ConfigPaths : \E p \in S : Includes(p, q)}
    IN  IF more = S THEN S ELSE IncludeClosure(more)

\* A file that is reached again from its own include list.
IncludeCycle ==
    \E p \in ConfigPaths :
        p \in IncludeClosure({q \in ConfigPaths : Includes(p, q)})

\* C39 -- configuration loading terminates: load_from returns a configuration
\* or an error after finitely many steps for every finite set of configuration
\* files, files whose include lists name each other or themselves included.
C39_LoadTerminates == <>(ld_result.kind \in {"ok", "err"})

\* What does hold: load_from returns when no file is reached again from its
\* own include list.
C39_LoadTerminatesWithoutCycle ==
    ~IncludeCycle => <>(ld_result.kind \in {"ok", "err"})

\* A file that names itself in its include list has been loaded, and the
\* process has run out of stack.
C39_Witness ==
    /\ ld_result.kind = "aborted"
    /\ \E p \in ConfigPaths : Includes(p, p)

\* ---------------------------------------------------------------------------
\* The resolver's output against its input list (resolver.rs 138-155, 315-394)
\* ---------------------------------------------------------------------------

\* The name and dependencies of the entries of a list, in its order.
EntriesOf(list) ==
    [i \in DOMAIN list |-> [name |-> list[i].name, dependencies |-> list[i].dependencies]]

\* One list holds every entry as often as the other.
SameEntries(l1, l2) ==
    /\ Len(l1) = Len(l2)
    /\ \A e \in Range(l1) \cup Range(l2) :
          Cardinality({i \in DOMAIN l1 : l1[i] = e}) = Cardinality({i \in DOMAIN l2 : l2[i] = e})

InputNamesDistinct ==
    \A i, j \in DOMAIN packages : packages[i].name = packages[j].name => i = j

BuildOrderIsIndex ==
    \A i \in DOMAIN r_result.ordered : r_result.ordered[i].build_order = i - 1

\* C40 -- the resolver neither drops nor duplicates packages: on success the
\* output holds exactly one entry for each entry of the input list (a
\* permutation of it, for every input list), and each entry's build_order is
\* its index in the output.
C40_OutputIsPermutation ==
    (r_pc = "done" /\ r_result.kind = "ok")
    => /\ SameEntries(EntriesOf(r_result.ordered), EntriesOf(packages))
       /\ BuildOrderIsIndex

\* What does hold: build_order is the index, the output holds one entry for
\* each NAME of the input, the last entry of that name, and it is a
\* permutation of the input when the names of the input are distinct.
C40_OneEntryPerName ==
    (r_pc = "done" /\ r_result.kind = "ok")
    => /\ BuildOrderIsIndex
       /\ \A n \in {packages[i].name : i \in DOMAIN packages} :
             \E i \in DOMAIN r_result.ordered :
                /\ r_result.ordered[i].name = n
                /\ r_result.ordered[i].dependencies = packages[LastIndexOf(packages, n)].dependencies
                /\ \A j \in DOMAIN r_result.ordered : r_result.ordered[j].name = n => j = i
       /\ InputNamesDistinct =>
             SameEntries(EntriesOf(r_result.ordered), EntriesOf(packages))

\* A list with two entries of one name has been resolved with success, and
\* the output is shorter than the input.
C40_Witness ==
    /\ r_pc = "done"
    /\ r_result.kind = "ok"
    /\ ~InputNamesDistinct
    /\ Len(r_result.ordered) < Len(packages)
    /\ Len(r_result.ordered) >= 2

====
